---- MODULE Spec2Model ----
(***************************************************************************)
(* Matching & guardrailed scoring engine of the resume parser.             *)
(*                                                                         *)
(* Numbers.  Scores are integers.  Weights and rule thresholds are decimal *)
(* fractions and are kept as integer hundredths (0.30 is 30); oracle       *)
(* values are kept as integer tenths (40.5 is 405); multiply factors are   *)
(* fractions num/den.  Sums and quotients are computed exactly and then    *)
(* rounded as Python's round() does (half to even) or truncated as int()   *)
(* does (towards zero).  Binary floating point rounds to the same integer  *)
(* unless the exact value lies within the accumulated error of a tie       *)
(* k + 0.5; the inputs enumerated below produce no such value.             *)
(*                                                                         *)
(* Text.  A string is a tuple of one-character strings.                    *)
(***************************************************************************)
EXTENDS Integers, Sequences, FiniteSets, TLC

\* ------------------------------------------------------------------------
\* Bounds of the model
\* ------------------------------------------------------------------------
MaxRules == 2

\* ------------------------------------------------------------------------
\* Arithmetic helpers
\* ------------------------------------------------------------------------
Min2(a, b) == IF a <= b THEN a ELSE b
Max2(a, b) == IF a >= b THEN a ELSE b

\* Python round(num/den) for den > 0: nearest integer, ties to even.
PyRound(num, den) ==
    LET q == num \div den
        r == num % den
    IN  IF 2 * r < den THEN q
        ELSE IF 2 * r > den THEN q + 1
        ELSE IF q % 2 = 0 THEN q ELSE q + 1

\* Python int(num/den) for den > 0: truncation towards zero.
PyInt(num, den) == IF num >= 0 THEN num \div den ELSE -((-num) \div den)

RECURSIVE SumOver(_, _)
SumOver(f, S) ==
    IF S = {} THEN 0
    ELSE LET x == CHOOSE y \in S : TRUE IN f[x] + SumOver(f, S \ {x})

\* ------------------------------------------------------------------------
\* Score schema (ai_scorer.EXPECTED_KEYS, scoring_contracts.ScoringWeights)
\* ------------------------------------------------------------------------
Categories ==
    { "skills_score", "experience_score", "relevant_experience_score",
      "projects_score", "certificates_score", "tools_score",
      "technologies_score", "qualification_score",
      "responsibilities_score", "salary_score" }

EXPECTED_KEYS == {"final_score"} \cup Categories

\* A value held in a score map: a Python int or None.
IntV(n) == [k |-> "int", v |-> n]
NoneV == [k |-> "none", v |-> 0]
IsInt(x) == x.k = "int"

\* ScoringWeights field defaults, in hundredths.
DefaultWeights ==
    [c \in Categories |->
        CASE c = "skills_score" -> 30
          [] c = "experience_score" -> 25
          [] c = "relevant_experience_score" -> 10
          [] c = "projects_score" -> 10
          [] c = "certificates_score" -> 5
          [] c = "tools_score" -> 5
          [] c = "technologies_score" -> 5
          [] c = "qualification_score" -> 5
          [] c = "responsibilities_score" -> 3
          [] c = "salary_score" -> 2]

\* ScoringWeights(**given): a field that is given keeps its value, a field
\* given as null becomes 0.0 (set_default_if_none), a field that is not
\* given keeps its default.  given = [vals |-> partial map, nulls |-> keys].
ScoringWeights(given) ==
    [c \in Categories |->
        IF c \in given.nulls THEN 0
        ELSE IF c \in DOMAIN given.vals THEN given.vals[c]
        ELSE DefaultWeights[c]]

\* _clamp_and_int(v): int(round(float(v))) clamped to [0,100]; anything
\* float() or round() rejects (missing, null, text, inf, nan) becomes 0.
\* A raw value is [k |-> kind, v |-> tenths].
clamp_and_int(v) ==
    LET iv == IF v.k = "num" THEN PyRound(v.v, 10) ELSE 0
    IN  Max2(0, Min2(100, iv))

\* score_map.get(k, 0)
MapGet(score_map, key) ==
    IF key \in DOMAIN score_map THEN score_map[key] ELSE IntV(0)

\* score_map[key] = val
MapSet(score_map, key, val) ==
    [x \in DOMAIN score_map \cup {key} |->
        IF x = key THEN val ELSE score_map[x]]

\* _compute_weighted_final raises TypeError when a weighted entry is None.
WeightedFinalRaises(score_map, weights) ==
    \E c \in Categories : ~IsInt(MapGet(score_map, c))

\* _compute_weighted_final: int(round(sum of score_map.get(k,0) * w)).
compute_weighted_final(score_map, weights) ==
    LET prod == [c \in Categories |->
                    IF IsInt(MapGet(score_map, c))
                    THEN MapGet(score_map, c).v * weights[c] ELSE 0]
    IN  PyRound(SumOver(prod, Categories), 100)

\* ------------------------------------------------------------------------
\* Text helpers (Python str operations on tuples of characters)
\* ------------------------------------------------------------------------
UpperLetters ==
    << "A","B","C","D","E","F","G","H","I","J","K","L","M",
       "N","O","P","Q","R","S","T","U","V","W","X","Y","Z" >>
LowerLetters ==
    << "a","b","c","d","e","f","g","h","i","j","k","l","m",
       "n","o","p","q","r","s","t","u","v","w","x","y","z" >>
Digits == { "0","1","2","3","4","5","6","7","8","9" }

Range(f) == { f[i] : i \in DOMAIN f }

\* str.lower() and str.upper() on one character
LowerChar(c) ==
    IF c \in Range(UpperLetters)
    THEN LowerLetters[CHOOSE i \in 1..26 : UpperLetters[i] = c] ELSE c
UpperChar(c) ==
    IF c \in Range(LowerLetters)
    THEN UpperLetters[CHOOSE i \in 1..26 : LowerLetters[i] = c] ELSE c

Lower(s) == [i \in 1..Len(s) |-> LowerChar(s[i])]

\* regex \w and \s
IsWordChar(c) ==
    c \in Range(UpperLetters) \cup Range(LowerLetters) \cup Digits \cup {"_"}
IsSpace(c) == c \in {" ", "\n", "\t"}

\* needle occurs in hay starting at position i
OccursAt(hay, i, needle) ==
    /\ i >= 1
    /\ i + Len(needle) - 1 <= Len(hay)
    /\ \A j \in 1..Len(needle) : hay[i + j - 1] = needle[j]

\* Python "needle in hay"
Contains(hay, needle) ==
    \E i \in 1..(Len(hay) - Len(needle) + 1) : OccursAt(hay, i, needle)

\* str.strip()
Strip(s) ==
    LET nonblank == { i \in 1..Len(s) : ~IsSpace(s[i]) }
    IN  IF nonblank = {} THEN << >>
        ELSE LET lo == CHOOSE i \in nonblank : \A j \in nonblank : i <= j
                 hi == CHOOSE i \in nonblank : \A j \in nonblank : i >= j
             IN  SubSeq(s, lo, hi)

\* number of characters of str(n) for an integer n
DecLen(n) ==
    LET a == IF n < 0 THEN -n ELSE n
        d == IF a < 10 THEN 1 ELSE IF a < 100 THEN 2 ELSE IF a < 1000 THEN 3 ELSE 4
    IN  IF n < 0 THEN d + 1 ELSE d

\* ------------------------------------------------------------------------
\* Resume facts and evidence rules (scoring_contracts.ResumeFacts,
\* config/evidence_rules.json records)
\* ------------------------------------------------------------------------
\* A JSON number n/d or null, as found in a rule record.
Num(n, d) == [k |-> "num", n |-> n, d |-> d]
Null == [k |-> "null", n |-> 0, d |-> 1]

\* A "YYYY-MM" date string, or a string calculate_duration cannot split.
Date(y, m) == [ok |-> TRUE, y |-> y, m |-> m]
NoDate == [ok |-> FALSE, y |-> 0, m |-> 0]

\* validator.calculate_duration: whole months between the two dates, as
\* years rounded to 2 decimals (returned here in hundredths of a year);
\* 0.0 for a missing or unparsable date or a negative span.
calculate_duration(start_date, end_date) ==
    IF ~start_date.ok \/ ~end_date.ok THEN 0
    ELSE LET months == (end_date.y - start_date.y) * 12
                         + (end_date.m - start_date.m)
         IN  IF months < 0 THEN 0 ELSE PyRound(months * 100, 12)

\* GenericEvidenceRule._evaluate_condition.  The result is "true", "false"
\* or "raise" (an exception leaves the function).
\* resume.summary is an extra field of ResumeFacts: reading it raises
\* AttributeError when the resume JSON has no such key.
evaluate_condition(condition, resume) ==
    LET field == condition.field
        operator == condition.operator
        known == field \in {"resume.experience", "resume.summary", "resume.skills"}
        isList == field \in {"resume.experience", "resume.skills"}
        list == IF field = "resume.experience" THEN resume.experience
                ELSE IF field = "resume.skills" THEN resume.skills ELSE << >>
        matches == Cardinality({ i \in 1..Len(list) :
                       Contains(Lower(list[i].role), Lower(condition.keyword.v)) })
        total_months == SumOver([i \in 1..Len(list) |->
                           calculate_duration(list[i].start_date, list[i].end_date) * 12],
                           1..Len(list))
    IN  IF field = "resume.summary" /\ resume.summary.k = "missing" THEN "raise"
        ELSE IF ~known THEN "false"
        ELSE IF field = "resume.summary" /\ resume.summary.k = "null" THEN "false"
        ELSE IF operator = "empty"
             THEN IF isList THEN (IF Len(list) = 0 THEN "true" ELSE "false")
                  ELSE (IF Len(resume.summary.v) = 0 THEN "true" ELSE "false")
        ELSE IF operator = "contains_keyword_ratio"
             THEN IF condition.keyword.k # "str" THEN "raise"
                  ELSE IF ~isList \/ Len(list) = 0 THEN "false"
                  ELSE IF field = "resume.skills" THEN "raise"
                  ELSE IF condition.threshold.k # "num" THEN "raise"
                  ELSE IF matches * 100 >= condition.threshold.n * Len(list)
                       THEN "true" ELSE "false"
        ELSE IF operator = "avg_duration_months_lt"
             THEN IF ~isList \/ Len(list) = 0 THEN "false"
                  ELSE IF field = "resume.skills" THEN "raise"
                  ELSE IF condition.value.k # "num" THEN "raise"
                  ELSE IF total_months < condition.value.n * 100 * Len(list)
                       THEN "true" ELSE "false"
        ELSE "false"

\* ------------------------------------------------------------------------
\* Guardrail rules (ai_guardrails.py).  A rule application returns
\* [map |-> score map, notes |-> notes to append, raised |-> an exception
\* left apply()].  A note is [src |-> rule, len |-> characters].
\* ------------------------------------------------------------------------
Note(src, len) == [src |-> src, len |-> len]
Applied(map, notes) == [map |-> map, notes |-> notes, raised |-> FALSE]
Raised(map) == [map |-> map, notes |-> << >>, raised |-> TRUE]

Positive(score_map, key) ==
    IsInt(MapGet(score_map, key)) /\ MapGet(score_map, key).v > 0

\* SkillsEvidenceRule.apply
SkillsEvidenceRule(score_map, resume) ==
    IF Len(resume.skills) = 0 /\ Positive(score_map, "skills_score")
    THEN Applied(MapSet(score_map, "skills_score", IntV(0)),
                 << Note("builtin:skills", 59) >>)
    ELSE Applied(score_map, << >>)

\* ExperienceEvidenceRule.apply: the three keys in the order of the loop.
ExperienceKeys ==
    << "experience_score", "relevant_experience_score", "responsibilities_score" >>

ExperienceEvidenceRule(score_map, resume) ==
    IF Len(resume.experience) # 0 THEN Applied(score_map, << >>)
    ELSE LET hit == [i \in 1..3 |-> Positive(score_map, ExperienceKeys[i])]
             zeroed == [x \in DOMAIN score_map |->
                          IF \E i \in 1..3 : ExperienceKeys[i] = x /\ hit[i]
                          THEN IntV(0) ELSE score_map[x]]
             n1 == IF hit[1] THEN << Note("builtin:experience_score", 65) >> ELSE << >>
             n2 == IF hit[2] THEN << Note("builtin:relevant_experience_score", 74) >> ELSE << >>
             n3 == IF hit[3] THEN << Note("builtin:responsibilities_score", 71) >> ELSE << >>
         IN  Applied(zeroed, n1 \o n2 \o n3)

\* ProjectsEvidenceRule.apply
ProjectsEvidenceRule(score_map, resume) ==
    IF Len(resume.projects) = 0 /\ Positive(score_map, "projects_score")
    THEN Applied(MapSet(score_map, "projects_score", IntV(0)),
                 << Note("builtin:projects", 53) >>)
    ELSE Applied(score_map, << >>)

\* CertificationsEvidenceRule.apply
CertificationsEvidenceRule(score_map, resume) ==
    IF Len(resume.certifications) = 0 /\ Positive(score_map, "certificates_score")
    THEN Applied(MapSet(score_map, "certificates_score", IntV(0)),
                 << Note("builtin:certificates", 63) >>)
    ELSE Applied(score_map, << >>)

\* Length of "[Guardrail: {id}] {target} adjusted ({op} {val})."
GenericNoteLen(rule) ==
    12 + Len(rule.id) + 2 + Len(rule.action.target) + 11
       + Len(rule.action.operation) + 1
       + (IF rule.action.value.k = "null" THEN 4
          ELSE IF rule.action.value.d = 1 THEN DecLen(rule.action.value.n)
          ELSE 3)
       + 2

\* min(current_score, val) and current_score * val raise TypeError when
\* either operand is None.
ActionTypeError(action, score_map) ==
    /\ action.operation \in {"cap", "multiply"}
    /\ (~IsInt(MapGet(score_map, action.target)) \/ action.value.k = "null")

\* One iteration of the loop of GenericEvidenceRule.apply (the try block
\* and its handler).  An entry of the rule set that is not a JSON object
\* makes rule.get raise inside the try block and again inside the handler,
\* so the second exception leaves apply().  Cap and set values of the rule
\* sets modelled are JSON integers or null.
GenericRuleStep(rule, score_map, resume) ==
    IF ~rule.isdict THEN Raised(score_map)
    ELSE
    LET cond == evaluate_condition(rule.condition, resume)
        target == rule.action.target
        op == rule.action.operation
        val == rule.action.value
        current_score == MapGet(score_map, target)
        new_score ==
            IF op = "cap" THEN IntV(Min2(current_score.v, val.n))
            ELSE IF op = "multiply" THEN IntV(PyInt(current_score.v * val.n, val.d))
            ELSE IF op = "set" THEN (IF val.k = "null" THEN NoneV ELSE IntV(val.n))
            ELSE current_score
    IN  IF cond # "true" \/ ActionTypeError(rule.action, score_map)
        THEN Applied(score_map, << >>)
        ELSE IF new_score # current_score
             THEN Applied(MapSet(score_map, target, new_score),
                          << Note(rule.id, GenericNoteLen(rule)) >>)
             ELSE Applied(score_map, << >>)

\* GenericEvidenceRule.apply from rule number i on.  rules is what
\* _load_rules returned: [iterable |-> it is a list, items |-> its entries].
RECURSIVE GenericFrom(_, _, _, _)
GenericFrom(rules, i, acc, resume) ==
    IF acc.raised \/ i > Len(rules.items) THEN acc
    ELSE LET r == GenericRuleStep(rules.items[i], acc.map, resume)
         IN  GenericFrom(rules, i + 1,
                 [map |-> r.map, notes |-> acc.notes \o r.notes, raised |-> r.raised],
                 resume)

GenericEvidenceRule(rules, score_map, resume) ==
    IF ~rules.iterable THEN Raised(score_map)
    ELSE GenericFrom(rules, 1, Applied(score_map, << >>), resume)

\* (existing_notes + " " + " ".join(all_notes))[:500]: the new length and
\* the sources of the notes of which at least one character is kept.
NOTES_CAP == 500
ORACLE_NOTES_CAP == 240

RECURSIVE NoteOffset(_, _)
NoteOffset(all_notes, i) ==
    IF i = 1 THEN 0 ELSE NoteOffset(all_notes, i - 1) + all_notes[i - 1].len + 1

\* the notes joined without the cut at 500 characters
JoinNotesUncapped(notes, all_notes) ==
    IF Len(all_notes) = 0 THEN notes
    ELSE [len |-> notes.len + 1 + NoteOffset(all_notes, Len(all_notes))
                    + all_notes[Len(all_notes)].len,
          tags |-> notes.tags \o [i \in 1..Len(all_notes) |-> all_notes[i].src]]

JoinNotes(notes, all_notes) ==
    IF Len(all_notes) = 0 THEN notes
    ELSE LET n == Len(all_notes)
             full == notes.len + 1 + NoteOffset(all_notes, n) + all_notes[n].len
             kept == SelectSeq([i \in 1..n |-> [src |-> all_notes[i].src,
                                  at |-> notes.len + 1 + NoteOffset(all_notes, i)]],
                               LAMBDA x : x.at < NOTES_CAP)
         IN  [len |-> Min2(NOTES_CAP, full),
              tags |-> notes.tags \o [i \in 1..Len(kept) |-> kept[i].src]]

\* apply_guardrails: the ACTIVE_GUARDRAILS chain, then the notes.
\* Result: [map, notes, raised].
apply_guardrails(score_map, notes, resume, rules) ==
    LET r1 == SkillsEvidenceRule(score_map, resume)
        r2 == ExperienceEvidenceRule(r1.map, resume)
        r3 == ProjectsEvidenceRule(r2.map, resume)
        r4 == CertificationsEvidenceRule(r3.map, resume)
        r5 == GenericEvidenceRule(rules, r4.map, resume)
        all_notes == r1.notes \o r2.notes \o r3.notes \o r4.notes \o r5.notes
    IN  IF r5.raised THEN [map |-> r5.map, notes |-> notes, raised |-> TRUE]
        ELSE [map |-> r5.map, notes |-> JoinNotes(notes, all_notes), raised |-> FALSE]

\* The coercion loop of validate_ai_score_output over EXPECTED_KEYS.
Coerce(raw_obj) ==
    [key \in EXPECTED_KEYS |-> IntV(clamp_and_int(raw_obj.fields[key]))]
CoerceNotes(raw_obj) ==
    [len |-> Min2(ORACLE_NOTES_CAP, raw_obj.notes_len), tags |-> << >>]

\* validate_ai_score_output(raw_obj, weights, guardrail_context).
\* Result: [status |-> "ok" | "rejected" | "raised", map, notes].
validate_ai_score_output(raw_obj, weights, has_context, resume, rules) ==
    IF ~raw_obj.isdict
    THEN [status |-> "rejected", map |-> << >>, notes |-> [len |-> 0, tags |-> << >>]]
    ELSE LET out == Coerce(raw_obj)
             g == IF has_context
                  THEN apply_guardrails(out, CoerceNotes(raw_obj), resume, rules)
                  ELSE [map |-> out, notes |-> CoerceNotes(raw_obj), raised |-> FALSE]
         IN  IF g.raised \/ WeightedFinalRaises(g.map, weights)
             THEN [status |-> "raised", map |-> g.map, notes |-> g.notes]
             ELSE [status |-> "ok",
                   map |-> MapSet(g.map, "final_score",
                                  IntV(compute_weighted_final(g.map, weights))),
                   notes |-> g.notes]

\* ------------------------------------------------------------------------
\* Inputs of the oracle path
\* ------------------------------------------------------------------------
T_python == << "P", "y", "t", "h", "o", "n" >>
T_intern == << "i", "n", "t", "e", "r", "n" >>
T_software_intern == << "S", "o", "f", "t", "w", "a", "r", "e", " ", "I", "n", "t", "e", "r", "n" >>
T_intern_developer == << "I", "n", "t", "e", "r", "n", " ", "D", "e", "v", "e", "l", "o", "p", "e", "r" >>
T_senior_dev == << "S", "e", "n", "i", "o", "r", " ", "D", "e", "v" >>
T_filled_summary == << "F", "i", "l", "l", "e", "d", " ", "s", "u", "m", "m", "a", "r", "y" >>

\* Values an oracle can put in a score field: missing, text, a number
\* (in tenths): 40.5, 250, -20, 80, 30.
Absent == [k |-> "absent", v |-> 0]
TextValue == [k |-> "text", v |-> 0]
RawNum(tenths) == [k |-> "num", v |-> tenths]
RawBases == { Absent, RawNum(405), RawNum(2500) }
RawFinals == { Absent, RawNum(800), RawNum(300) }
RawSkills == { TextValue, RawNum(-200), RawNum(1000) }
RawNotesLens == { 0, 300 }

RawObject(base, final, skills, notes_len) ==
    [isdict |-> TRUE,
     fields |-> [key \in EXPECTED_KEYS |->
                    IF key = "final_score" THEN final
                    ELSE IF key = "skills_score" THEN skills ELSE base],
     notes_len |-> notes_len]
NotAnObject ==
    [isdict |-> FALSE, fields |-> [key \in EXPECTED_KEYS |-> Absent], notes_len |-> 0]

\* Weight vectors ai_score_resume builds: the default vector, the JD
\* weights of tests/test_evidence_rules.py ({"skills_score": 1.0}), and an
\* explicit dict with a negative and a null field.
NoWeightsGiven == [vals |-> << >>, nulls |-> {}]
JdWeightsGiven == [vals |-> [c \in {"skills_score"} |-> 100], nulls |-> {}]
ExplicitWeightsGiven ==
    [vals |-> [c \in {"experience_score"} |-> -25], nulls |-> {"salary_score"}]
WeightChoices ==
    { ScoringWeights(NoWeightsGiven), ScoringWeights(JdWeightsGiven),
      ScoringWeights(ExplicitWeightsGiven) }

Summary(text) == [k |-> "str", v |-> text]
NoSummaryKey == [k |-> "missing", v |-> << >>]
Job(role, start_date, end_date) ==
    [role |-> role, start_date |-> start_date, end_date |-> end_date]

\* ResumeFacts instances: nothing at all; the intern resume and the
\* missing-summary resume of tests/test_evidence_rules.py.
ResumeBare ==
    [skills |-> << >>, experience |-> << >>, projects |-> << >>,
     certifications |-> << >>, summary |-> NoSummaryKey]
ResumeIntern ==
    [skills |-> << T_python >>,
     experience |-> << Job(T_software_intern, Date(2020, 1), Date(2020, 6)),
                       Job(T_intern_developer, Date(2021, 1), Date(2021, 6)) >>,
     projects |-> << >>, certifications |-> << >>,
     summary |-> Summary(T_filled_summary)]
ResumeNoSummary ==
    [skills |-> << T_python >>,
     experience |-> << Job(T_senior_dev, Date(2010, 1), Date(2020, 1)) >>,
     projects |-> << T_python >>, certifications |-> << T_python >>,
     summary |-> Summary(<< >>)]
ResumeChoices == { ResumeBare, ResumeIntern, ResumeNoSummary }

Str(text) == [k |-> "str", v |-> text]
Condition(field, operator, keyword, threshold, value) ==
    [field |-> field, operator |-> operator, keyword |-> keyword,
     threshold |-> threshold, value |-> value]
Action(target, operation, value) ==
    [target |-> target, operation |-> operation, value |-> value]
Rule(id, condition, action) ==
    [isdict |-> TRUE, id |-> id, condition |-> condition, action |-> action]

\* Entries an evidence rule file can hold.
RuleSkillsFloor ==
    Rule("rule_skills_floor",
         Condition("resume.skills", "empty", Str(<< >>), Num(0, 1), Num(0, 1)),
         Action("skills_score", "set", Num(50, 1)))
RuleIntern ==
    Rule("rule_intern_experience",
         Condition("resume.experience", "contains_keyword_ratio",
                   Str(T_intern), Num(50, 1), Num(0, 1)),
         Action("experience_score", "multiply", Num(1, 2)))
RuleMissingSummary ==
    Rule("rule_missing_summary",
         Condition("resume.summary", "empty", Str(<< >>), Num(0, 1), Num(0, 1)),
         Action("skills_score", "cap", Num(50, 1)))
RuleShortTenure ==
    Rule("rule_short_tenure",
         Condition("resume.experience", "avg_duration_months_lt",
                   Str(<< >>), Num(0, 1), Num(12, 1)),
         Action("tools_score", "set", Num(150, 1)))
RuleFinalCap ==
    Rule("rule_final_cap",
         Condition("resume.skills", "empty", Str(<< >>), Num(0, 1), Num(0, 1)),
         Action("final_score", "cap", Num(50, 1)))
RuleNoValue ==
    Rule("rule_no_value",
         Condition("resume.experience", "empty", Str(<< >>), Num(0, 1), Num(0, 1)),
         Action("projects_score", "set", Null))
RuleNoKeyword ==
    Rule("rule_no_keyword",
         Condition("resume.experience", "contains_keyword_ratio",
                   Null, Num(50, 1), Num(0, 1)),
         Action("salary_score", "set", Num(0, 1)))
RuleNotAnObject ==
    [isdict |-> FALSE, id |-> "",
     condition |-> Condition("", "", Null, Null, Null),
     action |-> Action("", "", Null)]

RuleUniverse ==
    { RuleSkillsFloor, RuleIntern, RuleMissingSummary, RuleShortTenure,
      RuleFinalCap, RuleNoValue, RuleNoKeyword, RuleNotAnObject }

RECURSIVE SeqsUpTo(_, _)
SeqsUpTo(S, n) ==
    IF n = 0 THEN { << >> }
    ELSE LET shorter == SeqsUpTo(S, n - 1)
         IN  shorter \cup { Append(q, x) : q \in shorter, x \in S }

\* What _load_rules can return: a list of entries, or a JSON value that
\* cannot be iterated (a number, null).
RuleSets ==
    { [iterable |-> TRUE, items |-> q] : q \in SeqsUpTo(RuleUniverse, MaxRules) }
      \cup { [iterable |-> FALSE, items |-> << >>] }
NoRules == [iterable |-> TRUE, items |-> << >>]

\* ------------------------------------------------------------------------
\* State
\* ------------------------------------------------------------------------
VARIABLES
    pc,             \* position inside validate_ai_score_output
    raw_obj,        \* the oracle's parsed output
    weights,        \* the ScoringWeights passed in
    has_context,    \* a GuardrailContext was passed
    resume,         \* guardrail_context.resume
    rules,          \* GenericEvidenceRule.rules
    out,            \* the score map being built
    notes,          \* out["notes"]
    all_notes,      \* all_notes of apply_guardrails
    idx             \* position of GenericEvidenceRule.apply in its rule list

oracleVars ==
    << pc, raw_obj, weights, has_context, resume, rules, out, notes, all_notes, idx >>

VARIABLES
    source,         \* _extract_matches: the corpus fragments
    targets,        \* _extract_matches: the target phrases
    matched,        \* _extract_matches: matched list
    missing,        \* _extract_matches: missing list
    tpos            \* _extract_matches: position of the loop over targets

matcherVars == << source, targets, matched, missing, tpos >>

VARIABLES
    total_years,            \* compute_experience_score: candidate years
    jd_experience_range,    \* compute_experience_score: the JD range
    experience_score        \* compute_experience_score: its result

experienceVars == << total_years, jd_experience_range, experience_score >>

VARIABLES
    lpc,            \* position inside score_resume_against_jd
    parsed_resume,  \* score_resume_against_jd: the resume passed in
    job_description,\* score_resume_against_jd: the JD passed in
    semantic_model, \* whether get_semantic_model() returns a model
    local_resume,   \* resume = validate_resume_data(parsed_resume)
    local_jd,       \* jd = validate_jd(job_description)
    text_corpus,    \* the text sources of the hybrid matches
    local_years,    \* total_years of score_resume_against_jd, in hundredths
    scores,         \* the category scores computed so far
    local_out       \* the returned map: the scores and final_score

localVars ==
    << lpc, parsed_resume, job_description, semantic_model, local_resume,
       local_jd, text_corpus, local_years, scores, local_out >>

VARIABLES
    timeline_list,    \* _calculate_experience_from_timeline: the entries
    timeline_title,       \* _calculate_experience_from_timeline: the job title
    timeline_model,     \* whether get_semantic_model() returns a model
    timeline_years,     \* its result, in hundredths of a year
    total_experience    \* the result of calculate_total_experience

timelineVars ==
    << timeline_list, timeline_title, timeline_model, timeline_years, total_experience >>

VARIABLES
    SEMANTIC_MODEL, \* the module global _SEMANTIC_MODEL
    sm_pc,          \* each thread's position inside get_semantic_model
    sm_built,       \* each thread's newly constructed instance
    sm_returned,    \* what each thread's calls returned, in order
    sm_instances    \* how many instances the constructor has returned

semanticVars == << SEMANTIC_MODEL, sm_pc, sm_built, sm_returned, sm_instances >>

VARIABLES
    jd_scoring,     \* validate_jd: the weights of jd_raw["scoring"], as given
    scoring_out     \* validate_jd: the weights of the returned jd["scoring"]

weightVars == << jd_scoring, scoring_out >>

VARIABLES
    records,        \* PromptRegistryAuthority.records
    storage,        \* the records in the file at storage_path
    response        \* what the last call returned

registryVars == << records, storage, response >>

VARIABLES
    rule_given,     \* the evidence rule both evaluators are handed
    resume_data,    \* the resume JSON both evaluators are handed
    announced,      \* ai_scorer._evaluate_rules: the ids it returned
    triggered       \* GenericEvidenceRule._evaluate_condition: its result

evaluatorVars == << rule_given, resume_data, announced, triggered >>

VARIABLES
    JOBS,           \* server.JOBS: in-memory status of each job
    db_jobs,        \* jobs table: status of each job row
    db_batch,       \* batches table: status of the batch row
    worker          \* position of process_single_resume for each job

jobVars == << JOBS, db_jobs, db_batch, worker >>

VARIABLES
    rel_criteria,               \* jd["scoring"]["relevant_experience"]["criteria"]
    rel_rmap,                   \* resume["relevant_experience_map"]
    rel_jd_skills,              \* jd["skills"]
    candidate_rel_years,        \* hundredths of a year; -1 before it is computed
    relevant_experience_score   \* -1 before it is computed

bucketVars ==
    << rel_criteria, rel_rmap, rel_jd_skills, candidate_rel_years,
       relevant_experience_score >>

vars ==
    << oracleVars, matcherVars, experienceVars, localVars, timelineVars, semanticVars,
       weightVars, registryVars, evaluatorVars, jobVars, bucketVars >>
notOracle ==
    << matcherVars, experienceVars, localVars, timelineVars, semanticVars,
       weightVars, registryVars, evaluatorVars, jobVars, bucketVars >>
notMatcher ==
    << oracleVars, experienceVars, localVars, timelineVars, semanticVars,
       weightVars, registryVars, evaluatorVars, jobVars, bucketVars >>
notExperience ==
    << oracleVars, matcherVars, localVars, timelineVars, semanticVars,
       weightVars, registryVars, evaluatorVars, jobVars, bucketVars >>
notLocal ==
    << oracleVars, matcherVars, experienceVars, timelineVars, semanticVars,
       weightVars, registryVars, evaluatorVars, jobVars, bucketVars >>
notTimeline ==
    << oracleVars, matcherVars, experienceVars, localVars, semanticVars,
       weightVars, registryVars, evaluatorVars, jobVars, bucketVars >>
notSemantic ==
    << oracleVars, matcherVars, experienceVars, localVars, timelineVars,
       weightVars, registryVars, evaluatorVars, jobVars, bucketVars >>
notWeight ==
    << oracleVars, matcherVars, experienceVars, localVars, timelineVars,
       semanticVars, registryVars, evaluatorVars, jobVars, bucketVars >>
notRegistry ==
    << oracleVars, matcherVars, experienceVars, localVars, timelineVars,
       semanticVars, weightVars, evaluatorVars, jobVars, bucketVars >>
notEvaluator ==
    << oracleVars, matcherVars, experienceVars, localVars, timelineVars,
       semanticVars, weightVars, registryVars, jobVars, bucketVars >>
notJob ==
    << oracleVars, matcherVars, experienceVars, localVars, timelineVars,
       semanticVars, weightVars, registryVars, evaluatorVars, bucketVars >>
notBucket ==
    << oracleVars, matcherVars, experienceVars, localVars, timelineVars,
       semanticVars, weightVars, registryVars, evaluatorVars, jobVars >>

\* A component that a specification does not exercise stays as it is here.
OracleIdle ==
    /\ pc = "idle"
    /\ raw_obj = << >>
    /\ weights = << >>
    /\ has_context = FALSE
    /\ resume = << >>
    /\ rules = << >>
    /\ out = << >>
    /\ notes = << >>
    /\ all_notes = << >>
    /\ idx = 0
MatcherIdle ==
    /\ source = << >>
    /\ targets = << >>
    /\ matched = << >>
    /\ missing = << >>
    /\ tpos = 0
ExperienceIdle ==
    /\ total_years = 0
    /\ jd_experience_range = << >>
    /\ experience_score = -1

LocalIdle ==
    /\ lpc = "idle"
    /\ parsed_resume = << >>
    /\ job_description = << >>
    /\ semantic_model = FALSE
    /\ local_resume = << >>
    /\ local_jd = << >>
    /\ text_corpus = << >>
    /\ local_years = 0
    /\ scores = << >>
    /\ local_out = << >>

TimelineIdle ==
    /\ timeline_list = << >>
    /\ timeline_title = << >>
    /\ timeline_model = FALSE
    /\ timeline_years = -1
    /\ total_experience = -1

SemanticIdle ==
    /\ SEMANTIC_MODEL = 0
    /\ sm_pc = << >>
    /\ sm_built = << >>
    /\ sm_returned = << >>
    /\ sm_instances = 0

WeightIdle ==
    /\ jd_scoring = << >>
    /\ scoring_out = << >>

RegistryIdle ==
    /\ records = << >>
    /\ storage = << >>
    /\ response = << >>

EvaluatorIdle ==
    /\ rule_given = << >>
    /\ resume_data = << >>
    /\ announced = << >>
    /\ triggered = << >>

JobIdle ==
    /\ JOBS = << >>
    /\ db_jobs = << >>
    /\ db_batch = << >>
    /\ worker = << >>

BucketIdle ==
    /\ rel_criteria = << >>
    /\ rel_rmap = << >>
    /\ rel_jd_skills = << >>
    /\ candidate_rel_years = -1
    /\ relevant_experience_score = -1

EmptyNotes == [len |-> 0, tags |-> << >>]

OracleInit ==
    /\ pc = "start"
    /\ raw_obj \in { RawObject(b, f, s, n) :
                        b \in RawBases, f \in RawFinals, s \in RawSkills,
                        n \in RawNotesLens } \cup { NotAnObject }
    /\ weights \in WeightChoices
    /\ has_context \in BOOLEAN
    /\ resume \in ResumeChoices
    /\ rules \in (IF has_context THEN RuleSets ELSE { NoRules })
    /\ out = << >>
    /\ notes = EmptyNotes
    /\ all_notes = << >>
    /\ idx = 0

\* validate_ai_score_output: the isinstance check and the coercion loop.
CoerceStep ==
    /\ pc = "start"
    /\ IF ~raw_obj.isdict
       THEN /\ pc' = "rejected"
            /\ UNCHANGED << out, notes >>
       ELSE /\ out' = Coerce(raw_obj)
            /\ notes' = CoerceNotes(raw_obj)
            /\ pc' = IF has_context THEN "skills" ELSE "final"
    /\ UNCHANGED << raw_obj, weights, has_context, resume, rules, all_notes, idx >>
    /\ UNCHANGED notOracle

\* One built-in rule of the ACTIVE_GUARDRAILS chain.
BuiltinStep(at, r, next) ==
    /\ pc = at
    /\ out' = r.map
    /\ all_notes' = all_notes \o r.notes
    /\ pc' = next
    /\ idx' = 1
    /\ UNCHANGED << raw_obj, weights, has_context, resume, rules, notes >>
    /\ UNCHANGED notOracle

SkillsStep == BuiltinStep("skills", SkillsEvidenceRule(out, resume), "experience")
ExperienceStep ==
    BuiltinStep("experience", ExperienceEvidenceRule(out, resume), "projects")
ProjectsStep ==
    BuiltinStep("projects", ProjectsEvidenceRule(out, resume), "certifications")
CertificationsStep ==
    BuiltinStep("certifications", CertificationsEvidenceRule(out, resume), "generic")

\* A GenericEvidenceRule.apply that walks its rule list from the end.
GenericStepBackwards ==
    /\ pc = "generic"
    /\ \/ /\ ~rules.iterable
          /\ pc' = "raised"
          /\ UNCHANGED << out, all_notes, idx >>
       \/ /\ rules.iterable
          /\ idx <= Len(rules.items)
          /\ LET r == GenericRuleStep(rules.items[Len(rules.items) + 1 - idx], out, resume)
             IN  /\ out' = r.map
                 /\ all_notes' = all_notes \o r.notes
                 /\ pc' = IF r.raised THEN "raised" ELSE "generic"
                 /\ idx' = idx + 1
    /\ UNCHANGED << raw_obj, weights, has_context, resume, rules, notes >>
    /\ UNCHANGED notOracle

\* GenericEvidenceRule.apply: one rule of the list, or the exception that
\* ends validate_ai_score_output.
GenericStep ==
    /\ pc = "generic"
    /\ \/ /\ ~rules.iterable
          /\ pc' = "raised"
          /\ UNCHANGED << out, all_notes, idx >>
       \/ /\ rules.iterable
          /\ idx <= Len(rules.items)
          /\ LET r == GenericRuleStep(rules.items[idx], out, resume)
             IN  /\ out' = r.map
                 /\ all_notes' = all_notes \o r.notes
                 /\ pc' = IF r.raised THEN "raised" ELSE "generic"
                 /\ idx' = idx + 1
    /\ UNCHANGED << raw_obj, weights, has_context, resume, rules, notes >>
    /\ UNCHANGED notOracle

\* apply_guardrails after the chain: the notes are joined and capped.
NotesStep ==
    /\ pc = "generic"
    /\ rules.iterable
    /\ idx > Len(rules.items)
    /\ notes' = JoinNotes(notes, all_notes)
    /\ pc' = "final"
    /\ UNCHANGED << raw_obj, weights, has_context, resume, rules, out, all_notes, idx >>
    /\ UNCHANGED notOracle

\* validate_ai_score_output: out["final_score"] = _compute_weighted_final.
FinalStep ==
    /\ pc = "final"
    /\ IF WeightedFinalRaises(out, weights)
       THEN /\ pc' = "raised"
            /\ out' = out
       ELSE /\ pc' = "done"
            /\ out' = MapSet(out, "final_score",
                             IntV(compute_weighted_final(out, weights)))
    /\ UNCHANGED << raw_obj, weights, has_context, resume, rules, notes, all_notes, idx >>
    /\ UNCHANGED notOracle

OracleNext ==
    \/ CoerceStep
    \/ SkillsStep
    \/ ExperienceStep
    \/ ProjectsStep
    \/ CertificationsStep
    \/ GenericStep
    \/ NotesStep
    \/ FinalStep

Init ==
    OracleInit /\ MatcherIdle /\ ExperienceIdle /\ LocalIdle /\ TimelineIdle /\ SemanticIdle
    /\ WeightIdle /\ RegistryIdle /\ EvaluatorIdle /\ JobIdle /\ BucketIdle
Next == OracleNext
Spec == Init /\ [][Next]_vars

\* ------------------------------------------------------------------------
\* Properties of the oracle path
\* ------------------------------------------------------------------------
WithFinal(raw, f) == [raw EXCEPT !.fields["final_score"] = f]

\* C1: the returned final_score is round(sum of weight x category score)
\* of the returned map, recomputing it changes nothing, and an oracle
\* output that differs only in its final_score gives the same output.
C1_FinalIsWeightedSum ==
    pc = "done" =>
        /\ out["final_score"] = IntV(compute_weighted_final(out, weights))
        /\ MapSet(out, "final_score", IntV(compute_weighted_final(out, weights))) = out
        /\ \A f \in RawFinals :
              LET other == validate_ai_score_output(WithFinal(raw_obj, f), weights,
                                                     has_context, resume, rules)
              IN  /\ other.status = "ok"
                  /\ other.map = out
                  /\ other.notes = notes

\* C2: with a guardrail context, every returned category score is an
\* integer between 0 and 100.
C2_CategoryScoresClamped ==
    (pc = "done" /\ has_context) =>
        \A c \in Categories : IsInt(out[c]) /\ out[c].v >= 0 /\ out[c].v <= 100

\* C3: the returned final_score is an integer between 0 and 100 for every
\* weight vector ai_score_resume accepts.
C3_FinalScoreInRange ==
    pc = "done" =>
        /\ IsInt(out["final_score"])
        /\ out["final_score"].v >= 0
        /\ out["final_score"].v <= 100

\* C4: when the candidate's skills list is empty, the map apply_guardrails
\* returns has skills_score = 0.
C4_NoSkillsNoSkillsScore ==
    (has_context /\ pc \in {"final", "done"} /\ Len(resume.skills) = 0) =>
        out["skills_score"] = IntV(0)

\* The rule at the head of the list raises while it is evaluated.
RuleRaises(rule, score_map, res) ==
    \/ ~rule.isdict
    \/ evaluate_condition(rule.condition, res) = "raise"
    \/ /\ evaluate_condition(rule.condition, res) = "true"
       /\ ActionTypeError(rule.action, score_map)

\* C6: a generic rule that raises is skipped (map and notes unchanged, the
\* loop goes on to the next rule), and no content of the rule set makes
\* apply_guardrails raise.
C6_GuardrailFailOpen ==
    [][ pc = "generic" =>
           /\ pc' # "raised"
           /\ (/\ rules.iterable
               /\ idx <= Len(rules.items)
               /\ RuleRaises(rules.items[idx], out, resume))
              => (out' = out /\ all_notes' = all_notes /\ idx' = idx + 1) ]_vars

\* ------------------------------------------------------------------------
\* Phrase matcher (matcher._make_regex_pattern, matcher._extract_matches)
\* ------------------------------------------------------------------------
MaxCorpus == 2
MaxTargets == 2

\* regex \b at the gap before position p of hay (p in 1..Len(hay)+1)
WordBoundary(hay, p) ==
    LET before == p > 1 /\ IsWordChar(hay[p - 1])
        after == p <= Len(hay) /\ IsWordChar(hay[p])
    IN  before # after

\* re.match(r"^\w+$", t): every character is a word character ($ also
\* matches before one trailing newline).
PureWord(t) ==
    LET n == IF Len(t) > 1 /\ t[Len(t)] = "\n" THEN Len(t) - 1 ELSE Len(t)
    IN  n >= 1 /\ \A i \in 1..n : IsWordChar(t[i])

\* re.match(r"\w$", t): re.match anchors at the start, so this holds only
\* for one word character (optionally followed by a newline).
EndsWordAtStart(t) ==
    /\ Len(t) >= 1
    /\ IsWordChar(t[1])
    /\ (Len(t) = 1 \/ (Len(t) = 2 /\ t[2] = "\n"))

\* A variant of _make_regex_pattern that closes every pattern with \b,
\* as the pure-word branch does.
make_regex_pattern_word_tail(target) ==
    LET t == Strip(target)
    IN  IF PureWord(t) THEN [lead |-> TRUE, literal |-> t, tail |-> "b"]
        ELSE [lead |-> Len(t) >= 1 /\ IsWordChar(t[1]),
              literal |-> t,
              tail |-> "b"]

\* _make_regex_pattern(target): [lead |-> \b before the literal,
\* literal |-> re.escape(t), tail |-> "b" for \b or "notword" for (?!\w)].
make_regex_pattern(target) ==
    LET t == Strip(target)
    IN  IF PureWord(t) THEN [lead |-> TRUE, literal |-> t, tail |-> "b"]
        ELSE [lead |-> Len(t) >= 1 /\ IsWordChar(t[1]),
              literal |-> t,
              tail |-> IF EndsWordAtStart(t) THEN "b" ELSE "notword"]

\* the pattern matches hay at position i, ignoring case
MatchesAt(pat, hay, i) ==
    LET n == Len(pat.literal)
    IN  /\ i + n - 1 <= Len(hay)
        /\ pat.lead => WordBoundary(hay, i)
        /\ \A j \in 1..n : LowerChar(hay[i + j - 1]) = LowerChar(pat.literal[j])
        /\ IF pat.tail = "b" THEN WordBoundary(hay, i + n)
           ELSE ~(i + n <= Len(hay) /\ IsWordChar(hay[i + n]))

\* re.search(pat, hay, re.IGNORECASE)
Search(pat, hay) == \E i \in 1..(Len(hay) + 1) : MatchesAt(pat, hay, i)

\* " \n ".join([str(s) for s in source if s])
Separator == << " ", "\n", " " >>
RECURSIVE JoinSources(_)
JoinSources(src) ==
    IF Len(src) = 0 THEN << >>
    ELSE LET rest == JoinSources(Tail(src))
             first == Head(src)
         IN  IF Len(first) = 0 THEN rest
             ELSE IF \A i \in 1..Len(Tail(src)) : Len(Tail(src)[i]) = 0 THEN first
             ELSE first \o Separator \o rest

\* One iteration of the loop of _extract_matches: "skip" for a blank
\* target, else "matched" or "missing".
MatchTarget(src, t) ==
    LET t_clean == Strip(t)
    IN  IF Len(t_clean) = 0 THEN "skip"
        ELSE IF Search(make_regex_pattern(t_clean), JoinSources(src)) THEN "matched"
        ELSE "missing"

\* _extract_matches(source, targets)
extract_matches(src, tgts) ==
    [matched |-> SelectSeq(tgts, LAMBDA t : MatchTarget(src, t) = "matched"),
     missing |-> SelectSeq(tgts, LAMBDA t : MatchTarget(src, t) = "missing")]

\* Corpus fragments and target phrases.
F_cpp_plus_lib == << "C", "+", "+", "+", "L", "i", "b" >>
F_cpp_lib == << "C", "+", "+", "L", "i", "b" >>
F_skilled == << "S", "k", "i", "l", "l", "e", "d", " ", "i", "n", " ", "C", "+", "+", ",", " ", "J", "a", "v", "a", "." >>
F_uses_cpp == << "u", "s", "e", "s", " ", "C", "+", "+" >>
F_javascript == << "J", "a", "v", "a", "S", "c", "r", "i", "p", "t" >>
F_a == << "a" >>
F_b == << "b" >>
T_cpp == << "C", "+", "+" >>
T_java == << "j", "a", "v", "a" >>
T_blank == << " ", " " >>
T_a_b == << "a", " ", "\n", " ", "b" >>

Fragments ==
    { F_cpp_plus_lib, F_cpp_lib, F_skilled, F_uses_cpp, F_javascript, F_a, F_b, << >> }
Targets == { T_cpp, T_java, T_blank, T_a_b, F_a }

MatcherInit ==
    /\ source \in SeqsUpTo(Fragments, MaxCorpus)
    /\ targets \in SeqsUpTo(Targets, MaxTargets)
    /\ matched = << >>
    /\ missing = << >>
    /\ tpos = 1

\* _extract_matches: the loop body for the target at tpos.
ExtractStep ==
    /\ tpos >= 1
    /\ tpos <= Len(targets)
    /\ LET verdict == MatchTarget(source, targets[tpos])
       IN  /\ matched' = IF verdict = "matched"
                         THEN Append(matched, targets[tpos]) ELSE matched
           /\ missing' = IF verdict = "missing"
                         THEN Append(missing, targets[tpos]) ELSE missing
    /\ tpos' = tpos + 1
    /\ UNCHANGED << source, targets >>
    /\ UNCHANGED notMatcher

MatcherNext == ExtractStep
MatcherStart ==
    OracleIdle /\ MatcherInit /\ ExperienceIdle /\ LocalIdle /\ TimelineIdle /\ SemanticIdle
    /\ WeightIdle /\ RegistryIdle /\ EvaluatorIdle /\ JobIdle /\ BucketIdle
SpecMatcher == MatcherStart /\ [][MatcherNext]_vars

MatcherDone == tpos = Len(targets) + 1

Occurrences(q, x) == Cardinality({ i \in 1..Len(q) : q[i] = x })

\* All orders of the entries of a sequence.
Orderings(q) ==
    { [i \in 1..Len(q) |-> q[f[i]]] :
        f \in { g \in [1..Len(q) -> 1..Len(q)] :
                  \A i, j \in 1..Len(q) : i # j => g[i] # g[j] } }

\* C7 as stated: "C++" does not match "C+++Lib", and matches
\* "Skilled in C++, Java." and a fragment that ends in "C++".
C7_AsStated ==
    (MatcherDone /\ targets = << T_cpp >>) =>
        /\ source = << F_cpp_plus_lib >> => matched = << >>
        /\ source = << F_skilled >> => matched = << T_cpp >>
        /\ source = << F_uses_cpp >> => matched = << T_cpp >>

\* C7 amended: the negative lookahead rejects "C++" only when a word
\* character follows it: no match in "C++Lib"; a match in "C+++Lib",
\* in "Skilled in C++, Java." and in a fragment that ends in "C++".
C7_SymbolBoundary ==
    (MatcherDone /\ targets = << T_cpp >>) =>
        /\ source = << F_cpp_lib >> => (matched = << >> /\ missing = << T_cpp >>)
        /\ source = << F_cpp_plus_lib >> => matched = << T_cpp >>
        /\ source = << F_skilled >> => matched = << T_cpp >>
        /\ source = << F_uses_cpp >> => matched = << T_cpp >>

C7_Witness ==
    /\ MatcherDone
    /\ targets = << T_cpp >>
    /\ source = << F_cpp_plus_lib >>
    /\ matched = << T_cpp >>

\* C8: matched and missing are disjoint, hold every non-blank target once
\* and in target order, and are the same sets for every order of the
\* corpus fragments.
C8_PartitionAndDeterminism ==
    MatcherDone =>
        /\ Range(matched) \cap Range(missing) = {}
        /\ \A i \in 1..Len(targets) :
              LET t == targets[i]
              IN  Occurrences(matched, t) + Occurrences(missing, t)
                    = (IF Len(Strip(t)) = 0 THEN 0 ELSE Occurrences(targets, t))
        /\ matched = SelectSeq(targets, LAMBDA t : t \in Range(matched))
        /\ missing = SelectSeq(targets, LAMBDA t : t \in Range(missing))
        /\ \A perm \in Orderings(source) :
              /\ Range(extract_matches(perm, targets).matched) = Range(matched)
              /\ Range(extract_matches(perm, targets).missing) = Range(missing)

\* ------------------------------------------------------------------------
\* Experience score (matcher.compute_experience_score)
\* ------------------------------------------------------------------------
MaxQuarters == 40

Text == [k |-> "text", n |-> 0, d |-> 1]

\* int(round(max(0, min(100, (num/den) * 100)))) for den > 0
ClampedPercent(num, den) ==
    IF num < 0 THEN 0
    ELSE IF num > den THEN 100
    ELSE PyRound(100 * num, den)

\* the try: float(v) / except: None conversion of a range bound
FloatOrNone(v) == IF v.k = "num" THEN v ELSE Null

\* A variant of compute_experience_score that consults the maximum
\* before the minimum.
compute_experience_score_max_first(years, range) ==
    LET min0 == IF range.isdict THEN range.min ELSE Null
        max0 == IF range.isdict THEN range.max ELSE Null
        min_y == FloatOrNone(min0)
        max_y == FloatOrNone(max0)
    IN  IF min0.k = "null" /\ max0.k = "null" THEN 0
        ELSE IF years.k = "null" THEN 0
        ELSE IF max_y.k = "num"
             THEN IF years.n * max_y.d <= max_y.n * years.d THEN 100
                  ELSE IF years.n = 0 THEN 0
                  ELSE IF years.n > 0
                       THEN ClampedPercent(max_y.n * years.d, years.n * max_y.d)
                       ELSE ClampedPercent(-(max_y.n * years.d), -(years.n * max_y.d))
        ELSE IF min_y.k = "num"
             THEN IF years.n * min_y.d >= min_y.n * years.d THEN 100
                  ELSE IF min_y.n <= 0 THEN 0
                  ELSE ClampedPercent(years.n * min_y.d, min_y.n * years.d)
        ELSE 0

\* compute_experience_score(total_years, jd_experience_range).  Numbers
\* are fractions n/d with d > 0.  A ZeroDivisionError is caught by the
\* outer try and gives 0.
compute_experience_score(years, range) ==
    LET min0 == IF range.isdict THEN range.min ELSE Null
        max0 == IF range.isdict THEN range.max ELSE Null
        min_y == FloatOrNone(min0)
        max_y == FloatOrNone(max0)
    IN  IF min0.k = "null" /\ max0.k = "null" THEN 0
        ELSE IF years.k = "null" THEN 0
        ELSE IF min_y.k = "num"
             THEN IF years.n * min_y.d >= min_y.n * years.d THEN 100
                  ELSE IF min_y.n <= 0 THEN 0
                  ELSE ClampedPercent(years.n * min_y.d, min_y.n * years.d)
        ELSE IF max_y.k = "num"
             THEN IF years.n * max_y.d <= max_y.n * years.d THEN 100
                  ELSE IF years.n = 0 THEN 0
                  ELSE IF years.n > 0
                       THEN ClampedPercent(max_y.n * years.d, years.n * max_y.d)
                       ELSE ClampedPercent(-(max_y.n * years.d), -(years.n * max_y.d))
        ELSE 0

\* Candidate years on a grid of quarter years (on it the float quotient
\* is exact wherever the percentage is a tie), or None.
YearsChoices == { Num(25 * q, 100) : q \in 0..MaxQuarters } \cup { Null }
MinChoices == { Null, Text, Num(0, 1), Num(2, 1), Num(3, 1), Num(4, 1) }
MaxChoices == { Null, Text, Num(0, 1), Num(8, 1) }
Range_(min, max) == [isdict |-> TRUE, min |-> min, max |-> max]
NotARange == [isdict |-> FALSE, min |-> Null, max |-> Null]

ExperienceInit ==
    /\ total_years \in YearsChoices
    /\ jd_experience_range \in
          { Range_(a, b) : a \in MinChoices, b \in MaxChoices } \cup { NotARange }
    /\ experience_score = -1

ComputeExperienceScore ==
    /\ experience_score = -1
    /\ experience_score' = compute_experience_score(total_years, jd_experience_range)
    /\ UNCHANGED << total_years, jd_experience_range >>
    /\ UNCHANGED notExperience

ExperienceNext == ComputeExperienceScore
ExperienceStart ==
    OracleIdle /\ MatcherIdle /\ ExperienceInit /\ LocalIdle /\ TimelineIdle /\ SemanticIdle
    /\ WeightIdle /\ RegistryIdle /\ EvaluatorIdle /\ JobIdle /\ BucketIdle
SpecExperience == ExperienceStart /\ [][ExperienceNext]_vars

\* C10: with y the candidate's years: a numeric min decides alone (100
\* when y >= min, else round(100*y/min), 0 when min <= 0); with only a
\* numeric max, 100 when y <= max, else round(100*max/y); with neither, 0;
\* and the score is always within 0..100.
C10_ExperienceScore ==
    (experience_score # -1 /\ total_years.k = "num") =>
        LET y == total_years
            lo == jd_experience_range.min
            hi == jd_experience_range.max
        IN  /\ experience_score >= 0
            /\ experience_score <= 100
            /\ (jd_experience_range.isdict /\ lo.k = "num") =>
                  experience_score =
                     (IF y.n >= lo.n * y.d THEN 100
                      ELSE IF lo.n <= 0 THEN 0
                      ELSE PyRound(100 * y.n, lo.n * y.d))
            /\ (jd_experience_range.isdict /\ lo.k # "num" /\ hi.k = "num") =>
                  experience_score =
                     (IF y.n <= hi.n * y.d THEN 100
                      ELSE PyRound(100 * hi.n * y.d, y.n))
            /\ (~jd_experience_range.isdict \/ (lo.k # "num" /\ hi.k # "num")) =>
                  experience_score = 0

\* {min:3, max:8}: 1.5 years score 50.
C10_Witness ==
    /\ jd_experience_range = Range_(Num(3, 1), Num(8, 1))
    /\ total_years = Num(150, 100)
    /\ experience_score = 50

\* ------------------------------------------------------------------------
\* JD normalisation (jd_normalizer.normalize_jd, jd_validator.validate_jd)
\* ------------------------------------------------------------------------

\* {**tech_aliases, **skill_aliases, **edu_aliases}, in iteration order:
\* << alias, canonical >>
ALL_JD_ALIASES ==
    <<
       << <<"r","e","a","c","t"," ","n","a","t","i","v","e">>,
          <<"R","e","a","c","t","J","S">> >>,
       << <<"r","e","a","c","t">>,
          <<"R","e","a","c","t","J","S">> >>,
       << <<"r","e","a","c","t",".","j","s">>,
          <<"R","e","a","c","t","J","S">> >>,
       << <<"t","y","p","e","s","c","r","i","p","t">>,
          <<"T","y","p","e","S","c","r","i","p","t">> >>,
       << <<"t","y","p","e"," ","s","c","r","i","p","t">>,
          <<"T","y","p","e","S","c","r","i","p","t">> >>,
       << <<"j","a","v","a","s","c","r","i","p","t">>,
          <<"J","a","v","a","S","c","r","i","p","t">> >>,
       << <<"j","s">>,
          <<"J","a","v","a","S","c","r","i","p","t">> >>,
       << <<"h","t","m","l">>,
          <<"H","T","M","L","5">> >>,
       << <<"h","t","m","l","/","c","s","s">>,
          <<"H","T","M","L","5">> >>,
       << <<"c","s","s">>,
          <<"C","S","S","3">> >>,
       << <<"t","a","i","l","w","i","n","d">>,
          <<"T","a","i","l","w","i","n","d"," ","C","S","S">> >>,
       << <<"b","o","o","t","s","t","r","a","p">>,
          <<"B","o","o","t","s","t","r","a","p">> >>,
       << <<"p","y","t","h","o","n">>,
          <<"P","y","t","h","o","n">> >>,
       << <<"a","p","i">>,
          <<"A","P","I"," ","D","e","v","e","l","o","p","m","e","n","t">> >>,
       << <<"n","o","d","e">>,
          <<"N","o","d","e",".","j","s">> >>,
       << <<"e","x","p","r","e","s","s">>,
          <<"E","x","p","r","e","s","s",".","j","s">> >>,
       << <<"p","h","p">>,
          <<"L","a","r","a","v","e","l">> >>,
       << <<"d","j","a","n","g","o">>,
          <<"D","j","a","n","g","o">> >>,
       << <<"f","l","a","s","k">>,
          <<"F","l","a","s","k">> >>,
       << <<"s","p","r","i","n","g"," ","b","o","o","t">>,
          <<"S","p","r","i","n","g">> >>,
       << <<"m","y","s","q","l">>,
          <<"M","y","S","Q","L">> >>,
       << <<"p","o","s","t","g","r","e","s">>,
          <<"P","o","s","t","g","r","e","S","Q","L">> >>,
       << <<"m","o","n","g","o","d","b">>,
          <<"M","o","n","g","o","D","B">> >>,
       << <<"a","w","s">>,
          <<"A","W","S">> >>,
       << <<"a","z","u","r","e">>,
          <<"A","z","u","r","e">> >>,
       << <<"g","c","p">>,
          <<"G","C","P">> >>,
       << <<"d","o","c","k","e","r">>,
          <<"D","o","c","k","e","r">> >>,
       << <<"k","u","b","e","r","n","e","t","e","s">>,
          <<"K","u","b","e","r","n","e","t","e","s">> >>,
       << <<"l","i","n","u","x">>,
          <<"L","i","n","u","x">> >>,
       << <<"r","e","s","t">>,
          <<"R","E","S","T"," ","A","P","I">> >>,
       << <<"g","r","a","p","h","q","l">>,
          <<"G","r","a","p","h","Q","L">> >>,
       << <<"f","i","r","e","b","a","s","e">>,
          <<"F","i","r","e","b","a","s","e">> >>,
       << <<"t","e","n","s","o","r","f","l","o","w">>,
          <<"T","e","n","s","o","r","F","l","o","w">> >>,
       << <<"p","y","t","o","r","c","h">>,
          <<"P","y","T","o","r","c","h">> >>,
       << <<"k","e","r","a","s">>,
          <<"K","e","r","a","s">> >>,
       << <<"o","p","e","n","c","v">>,
          <<"O","p","e","n","C","V">> >>,
       << <<"p","a","n","d","a","s">>,
          <<"P","a","n","d","a","s">> >>,
       << <<"n","u","m","p","y">>,
          <<"N","u","m","P","y">> >>,
       << <<"s","c","i","k","i","t">>,
          <<"S","c","i","k","i","t","-","L","e","a","r","n">> >>,
       << <<"g","i","t">>,
          <<"G","i","t","H","u","b">> >>,
       << <<"g","i","t"," ","h","u","b">>,
          <<"G","i","t","H","u","b">> >>,
       << <<"g","i","t","h","u","b">>,
          <<"G","i","t","H","u","b">> >>,
       << <<"g","i","t","l","a","b">>,
          <<"G","i","t","L","a","b">> >>,
       << <<"b","i","t","b","u","c","k","e","t">>,
          <<"B","i","t","b","u","c","k","e","t">> >>,
       << <<"v","s","c","o","d","e">>,
          <<"V","S"," ","C","o","d","e">> >>,
       << <<"v","i","s","u","a","l"," ","s","t","u","d","i","o">>,
          <<"V","S"," ","C","o","d","e">> >>,
       << <<"p","o","s","t","m","a","n">>,
          <<"P","o","s","t","m","a","n">> >>,
       << <<"j","i","r","a">>,
          <<"J","i","r","a">> >>,
       << <<"s","l","a","c","k">>,
          <<"S","l","a","c","k">> >>,
       << <<"e","c","l","i","p","s","e">>,
          <<"E","c","l","i","p","s","e">> >>,
       << <<"p","y","c","h","a","r","m">>,
          <<"P","y","C","h","a","r","m">> >>,
       << <<"i","n","t","e","l","l","i","j">>,
          <<"I","n","t","e","l","l","i","J"," ","I","D","E","A">> >>,
       << <<"p","r","o","b","l","e","m","-","s","o","l","v","i","n","g">>,
          <<"P","r","o","b","l","e","m"," ","S","o","l","v","i","n","g">> >>,
       << <<"p","r","o","b","l","e","m"," ","s","o","l","v","i","n","g">>,
          <<"P","r","o","b","l","e","m"," ","S","o","l","v","i","n","g">> >>,
       << <<"a","l","g","o","r","i","t","h","m","s">>,
          <<"A","l","g","o","r","i","t","h","m","s">> >>,
       << <<"d","a","t","a"," ","s","t","r","u","c","t","u","r","e">>,
          <<"D","a","t","a"," ","S","t","r","u","c","t","u","r","e","s">> >>,
       << <<"o","o","p">>,
          <<"O","O","P">> >>,
       << <<"o","b","j","e","c","t"," ","o","r","i","e","n","t","e","d">>,
          <<"O","O","P">> >>,
       << <<"n","e","t","w","o","r","k","i","n","g">>,
          <<"N","e","t","w","o","r","k","i","n","g">> >>,
       << <<"c","y","b","e","r","s","e","c","u","r","i","t","y">>,
          <<"C","y","b","e","r"," ","S","e","c","u","r","i","t","y">> >>,
       << <<"c","l","o","u","d">>,
          <<"C","l","o","u","d"," ","C","o","m","p","u","t","i","n","g">> >>,
       << <<"d","e","v","o","p","s">>,
          <<"D","e","v","O","p","s">> >>,
       << <<"m","l">>,
          <<"M","a","c","h","i","n","e"," ","L","e","a","r","n","i","n","g">> >>,
       << <<"m","a","c","h","i","n","e"," ","l","e","a","r","n","i","n","g">>,
          <<"M","a","c","h","i","n","e"," ","L","e","a","r","n","i","n","g">> >>,
       << <<"d","e","e","p"," ","l","e","a","r","n","i","n","g">>,
          <<"D","e","e","p"," ","L","e","a","r","n","i","n","g">> >>,
       << <<"a","r","t","i","f","i","c","i","a","l"," ","i","n","t","e","l","l","i","g","e","n","c","e">>,
          <<"A","I">> >>,
       << <<"a","i">>,
          <<"A","I">> >>,
       << <<"d","a","t","a","b","a","s","e">>,
          <<"D","a","t","a","b","a","s","e"," ","M","a","n","a","g","e","m","e","n","t">> >>,
       << <<"s","q","l">>,
          <<"D","a","t","a","b","a","s","e"," ","M","a","n","a","g","e","m","e","n","t">> >>,
       << <<"v","e","r","s","i","o","n"," ","c","o","n","t","r","o","l">>,
          <<"V","e","r","s","i","o","n"," ","C","o","n","t","r","o","l">> >>,
       << <<"l","e","a","d","e","r","s","h","i","p">>,
          <<"L","e","a","d","e","r","s","h","i","p">> >>,
       << <<"t","e","a","m">>,
          <<"T","e","a","m","w","o","r","k">> >>,
       << <<"m","a","n","a","g","e","m","e","n","t">>,
          <<"P","r","o","j","e","c","t"," ","M","a","n","a","g","e","m","e","n","t">> >>,
       << <<"t","e","s","t","i","n","g">>,
          <<"T","e","s","t","i","n","g"," ","&"," ","D","e","b","u","g","g","i","n","g">> >>,
       << <<"d","e","b","u","g","g","i","n","g">>,
          <<"T","e","s","t","i","n","g"," ","&"," ","D","e","b","u","g","g","i","n","g">> >>,
       << <<"b",".","e">>,
          <<"B","a","c","h","e","l","o","r","'","s"," ","D","e","g","r","e","e"," ","i","n"," ","E","n","g","i","n","e","e","r","i","n","g">> >>,
       << <<"b","e">>,
          <<"B","a","c","h","e","l","o","r","'","s"," ","D","e","g","r","e","e"," ","i","n"," ","E","n","g","i","n","e","e","r","i","n","g">> >>,
       << <<"b","t","e","c","h">>,
          <<"B","a","c","h","e","l","o","r","'","s"," ","D","e","g","r","e","e"," ","i","n"," ","E","n","g","i","n","e","e","r","i","n","g">> >>,
       << <<"b","a","c","h","e","l","o","r">>,
          <<"B","a","c","h","e","l","o","r","'","s"," ","D","e","g","r","e","e"," ","i","n"," ","E","n","g","i","n","e","e","r","i","n","g">> >>,
       << <<"m","t","e","c","h">>,
          <<"M","a","s","t","e","r","'","s"," ","D","e","g","r","e","e"," ","i","n"," ","E","n","g","i","n","e","e","r","i","n","g">> >>,
       << <<"m",".","e">>,
          <<"M","a","s","t","e","r","'","s"," ","D","e","g","r","e","e"," ","i","n"," ","E","n","g","i","n","e","e","r","i","n","g">> >>,
       << <<"m","a","s","t","e","r">>,
          <<"M","a","s","t","e","r","'","s"," ","D","e","g","r","e","e"," ","i","n"," ","E","n","g","i","n","e","e","r","i","n","g">> >>
    >>

\* str.split() followed by " ".join: runs of white space become one space
RECURSIVE SquashSpaces(_)
SquashSpaces(s) ==
    IF Len(s) = 0 THEN << >>
    ELSE IF IsSpace(s[1])
         THEN IF Len(s) > 1 /\ IsSpace(s[2]) THEN SquashSpaces(Tail(s))
              ELSE << " " >> \o SquashSpaces(Tail(s))
         ELSE << s[1] >> \o SquashSpaces(Tail(s))

\* " ".join([x.capitalize() for x in w.split()]) for a lower-case w
CapitalizeWords(w) ==
    LET q == SquashSpaces(Strip(w))
    IN  [i \in 1..Len(q) |->
            IF i = 1 \/ q[i - 1] = " " THEN UpperChar(q[i]) ELSE q[i]]

\* the canonical form of the first alias, from position i on, that is a
\* substring of w; << >> marks "no alias"
RECURSIVE FirstAlias(_, _)
FirstAlias(w, i) ==
    IF i > Len(ALL_JD_ALIASES) THEN << >>
    ELSE IF Contains(w, ALL_JD_ALIASES[i][1]) THEN ALL_JD_ALIASES[i][2]
    ELSE FirstAlias(w, i + 1)

\* normalize_token(word)
normalize_token(word) ==
    LET w == Strip(Lower(word))
        canonical == FirstAlias(w, 1)
    IN  IF canonical # << >> THEN canonical ELSE CapitalizeWords(w)

\* normalize_list(items): normalised tokens, first occurrence only
RECURSIVE NormalizeFrom(_, _, _)
NormalizeFrom(items, i, acc) ==
    IF i > Len(items) THEN acc
    ELSE LET norm == normalize_token(items[i])
         IN  NormalizeFrom(items, i + 1,
                 IF \E j \in 1..Len(acc) : acc[j] = norm THEN acc
                 ELSE Append(acc, norm))

normalize_list(items) == NormalizeFrom(items, 1, << >>)

\* position after the longest run of characters of set S starting at i
RECURSIVE RunEnd(_, _, _)
RunEnd(s, i, S) ==
    IF i <= Len(s) /\ s[i] \in S THEN RunEnd(s, i + 1, S) ELSE i

Spaces == { " ", "\n", "\t" }

DigitValue(c) ==
    CHOOSE v \in 0..9 : << "0","1","2","3","4","5","6","7","8","9" >>[v + 1] = c

\* int() of the digits s[i..j-1]
RECURSIVE ToInt(_, _, _)
ToInt(s, i, j) ==
    IF j <= i THEN 0 ELSE 10 * ToInt(s, i, j - 1) + DigitValue(s[j - 1])

IsDigitAt(s, i) == i >= 1 /\ i <= Len(s) /\ s[i] \in Digits

\* least element of a non-empty set of positions
Least(P) == CHOOSE i \in P : \A j \in P : i <= j

NoMatch == [found |-> FALSE, a |-> 0, b |-> 0]

\* re.search(r"(\d+)\s*[-to]+\s*(\d+)", s): the two numbers
SearchRange(s) ==
    LET EndOf(i) ==
            LET d == RunEnd(s, i, Digits)
                sp == RunEnd(s, d, Spaces)
                sep == RunEnd(s, sp, {"-", "t", "o"})
                sp2 == RunEnd(s, sep, Spaces)
            IN  [ok |-> d > i /\ sep > sp /\ IsDigitAt(s, sp2),
                 d |-> d, from |-> sp2]
        starts == { i \in 1..Len(s) : EndOf(i).ok }
    IN  IF starts = {} THEN NoMatch
        ELSE LET i == Least(starts)
                 e == EndOf(i)
             IN  [found |-> TRUE, a |-> ToInt(s, i, e.d),
                  b |-> ToInt(s, e.from, RunEnd(s, e.from, Digits))]

\* re.search(r"(\d+)\s*\+", s): the number
SearchPlus(s) ==
    LET Ok(i) == LET d == RunEnd(s, i, Digits)
                     sp == RunEnd(s, d, Spaces)
                 IN  d > i /\ sp <= Len(s) /\ s[sp] = "+"
        starts == { i \in 1..Len(s) : Ok(i) }
    IN  IF starts = {} THEN NoMatch
        ELSE LET i == Least(starts)
             IN  [found |-> TRUE, a |-> ToInt(s, i, RunEnd(s, i, Digits)), b |-> 0]

\* re.search(word + r"\s*(\d+)", s) for each word of a list of
\* alternatives: the number after the leftmost match
SearchAfter(s, words) ==
    LET After(i, w) == RunEnd(s, i + Len(w), Spaces)
        Ok(i, w) == OccursAt(s, i, w) /\ IsDigitAt(s, After(i, w))
        starts == { i \in 1..Len(s) : \E k \in 1..Len(words) : Ok(i, words[k]) }
    IN  IF starts = {} THEN NoMatch
        ELSE LET i == Least(starts)
                 k == Least({ n \in 1..Len(words) : Ok(i, words[n]) })
                 from == After(i, words[k])
             IN  [found |-> TRUE, a |-> ToInt(s, from, RunEnd(s, from, Digits)), b |-> 0]

\* re.search(r"(\d+)", s): the first number
SearchNumber(s) ==
    LET starts == { i \in 1..Len(s) : IsDigitAt(s, i) }
    IN  IF starts = {} THEN NoMatch
        ELSE LET i == Least(starts)
             IN  [found |-> TRUE, a |-> ToInt(s, i, RunEnd(s, i, Digits)), b |-> 0]

W_minimum == << "m", "i", "n", "i", "m", "u", "m" >>
W_least == << "l", "e", "a", "s", "t" >>
W_up_to == << "u", "p", " ", "t", "o" >>

\* parse_experience_range(exp_str) for a string exp_str
parse_experience_range(exp_str) ==
    LET s == Strip(Lower(exp_str))
        range == SearchRange(s)
        plus == SearchPlus(s)
        least == SearchAfter(s, << W_minimum, W_least >>)
        upto == SearchAfter(s, << W_up_to >>)
        single == SearchNumber(s)
    IN  IF range.found THEN Range_(Num(range.a, 1), Num(range.b, 1))
        ELSE IF plus.found THEN Range_(Num(plus.a, 1), Null)
        ELSE IF least.found THEN Range_(Num(least.a, 1), Null)
        ELSE IF upto.found THEN Range_(Null, Num(upto.a, 1))
        ELSE IF single.found THEN Range_(Num(single.a, 1), Num(single.a, 1))
        ELSE Range_(Null, Null)

\* A criteria dict is a sequence of [key |-> text, val |-> value] in
\* insertion order; a value is Num(n, 1) or Text.
Criterion(key, val) == [key |-> key, val |-> val]

\* float(v), with the except branch giving 0.0
FloatOrZero(v) == IF v.k = "num" THEN v.n ELSE 0

RECURSIVE MaxOver(_)
MaxOver(q) ==
    IF Len(q) = 1 THEN q[1] ELSE Max2(q[1], MaxOver(Tail(q)))

\* ai_scorer._scale_criteria_dict(criteria)
scale_criteria_dict(criteria) ==
    IF Len(criteria) = 0 THEN << >>
    ELSE LET numeric_values == [i \in 1..Len(criteria) |-> FloatOrZero(criteria[i].val)]
             max_val == MaxOver(numeric_values)
         IN  IF max_val <= 0
             THEN [i \in 1..Len(criteria) |-> Criterion(criteria[i].key, Num(0, 1))]
             ELSE IF max_val >= 100
             THEN [i \in 1..Len(criteria) |->
                     Criterion(criteria[i].key,
                         Num(Max2(0, Min2(100, numeric_values[i])), 1))]
             ELSE [i \in 1..Len(criteria) |->
                     Criterion(criteria[i].key,
                         Num(Max2(0, Min2(100, PyRound(100 * numeric_values[i], max_val))), 1))]

\* key.lower().replace(" ", "")
RemoveBlanks(s) == SelectSeq(Lower(s), LAMBDA c : c # " ")

\* re.match(r">=(\d+)", k), re.match(r"(\d+)-(\d+)", k), re.match(r"<(\d+)", k)
MatchAtLeast(k) ==
    LET e == RunEnd(k, 3, Digits)
    IN  IF Len(k) >= 3 /\ k[1] = ">" /\ k[2] = "=" /\ e > 3
        THEN [found |-> TRUE, a |-> ToInt(k, 3, e), b |-> 0] ELSE NoMatch

MatchBetween(k) ==
    LET d == RunEnd(k, 1, Digits)
        e == RunEnd(k, d + 1, Digits)
    IN  IF d > 1 /\ d <= Len(k) /\ k[d] = "-" /\ e > d + 1
        THEN [found |-> TRUE, a |-> ToInt(k, 1, d), b |-> ToInt(k, d + 1, e)]
        ELSE NoMatch

MatchBelow(k) ==
    LET e == RunEnd(k, 2, Digits)
    IN  IF Len(k) >= 2 /\ k[1] = "<" /\ e > 2
        THEN [found |-> TRUE, a |-> ToInt(k, 2, e), b |-> 0] ELSE NoMatch

\* the value of the first criterion whose key Hit accepts; -1 when there
\* is none
FirstHit(criteria, Hit(_)) ==
    LET hits == { i \in 1..Len(criteria) : Hit(RemoveBlanks(criteria[i].key)) }
    IN  IF hits = {} THEN -1 ELSE FloatOrZero(criteria[Least(hits)].val)

\* A lookup that takes the first matching rule in key order, whatever its
\* form.
map_relevant_experience_in_key_order(years, criteria) ==
    LET any == FirstHit(criteria,
                  LAMBDA k :
                     \/ MatchAtLeast(k).found /\ years >= 100 * MatchAtLeast(k).a
                     \/ /\ MatchBetween(k).found
                        /\ 100 * MatchBetween(k).a <= years
                        /\ years <= 100 * MatchBetween(k).b
                     \/ MatchBelow(k).found /\ years < 100 * MatchBelow(k).a)
    IN  IF any # -1 THEN any ELSE 0

\* _map_relevant_experience_to_bucket(years, criteria), years in
\* hundredths; criteria values are the integers left by the scaling
map_relevant_experience_to_bucket(years, criteria) ==
    LET at_least == FirstHit(criteria,
                       LAMBDA k : MatchAtLeast(k).found /\ years >= 100 * MatchAtLeast(k).a)
        between == FirstHit(criteria,
                       LAMBDA k : /\ MatchBetween(k).found
                                  /\ 100 * MatchBetween(k).a <= years
                                  /\ years <= 100 * MatchBetween(k).b)
        below == FirstHit(criteria,
                       LAMBDA k : MatchBelow(k).found /\ years < 100 * MatchBelow(k).a)
    IN  IF at_least # -1 THEN at_least
        ELSE IF between # -1 THEN between
        ELSE IF below # -1 THEN below
        ELSE 0

RECURSIVE Pow10(_)
Pow10(n) == IF n = 0 THEN 1 ELSE 10 * Pow10(n - 1)

\* the match of \d+\.?\d* at position i of k: [ok, end, n, d] with n/d
\* its float value
MatchDecimal(k, i) ==
    LET e1 == RunEnd(k, i, Digits)
        dot == e1 <= Len(k) /\ k[e1] = "."
        e2 == IF dot THEN RunEnd(k, e1 + 1, Digits) ELSE e1
        frac == IF dot THEN e2 - (e1 + 1) ELSE 0
    IN  [ok |-> e1 > i, end |-> e2,
         n |-> ToInt(k, i, e1) * Pow10(frac) + (IF dot THEN ToInt(k, e1 + 1, e2) ELSE 0),
         d |-> Pow10(frac)]

Less(x, y) == x.n * y.d < y.n * x.d
LessEq(x, y) == x.n * y.d <= y.n * x.d

\* one iteration of the loop of _parse_salary_criteria_and_score: does
\* the key accept the candidate salary?
SalaryKeyAccepts(key, salary) ==
    LET k == Lower(Strip(key))
        cmp == MatchDecimal(k, RunEnd(k, 2, Spaces))
        lo == MatchDecimal(k, 1)
        sep0 == RunEnd(k, lo.end, Spaces)
        sep1 == RunEnd(k, sep0, {"-", "t", "o"})
        hi == MatchDecimal(k, RunEnd(k, sep1, Spaces))
    IN  \/ Len(k) >= 1 /\ k[1] = "<" /\ cmp.ok /\ Less(salary, cmp)
        \/ Len(k) >= 1 /\ k[1] = ">" /\ cmp.ok /\ Less(cmp, salary)
        \/ lo.ok /\ sep1 > sep0 /\ hi.ok /\ LessEq(lo, salary) /\ LessEq(salary, hi)
        \/ lo.ok /\ lo.end = Len(k) + 1 /\ LessEq(lo, salary) /\ LessEq(salary, lo)

\* _parse_salary_criteria_and_score(salary_criteria, candidate_salary)
parse_salary_criteria_and_score(salary_criteria, candidate_salary) ==
    IF candidate_salary.k # "num" THEN 0
    ELSE LET hits == { i \in 1..Len(salary_criteria) :
                          SalaryKeyAccepts(salary_criteria[i].key, candidate_salary) }
         IN  IF hits = {} THEN 0
             ELSE FloatOrZero(salary_criteria[Least(hits)].val)

\* ------------------------------------------------------------------------
\* Resume validation (validator.validate_resume_data)
\* ------------------------------------------------------------------------

\* month names and their numbers, in iteration order
MONTH_MAP ==
    << << <<"j","a","n">>, 1 >>,
       << <<"j","a","n","u","a","r","y">>, 1 >>,
       << <<"f","e","b">>, 2 >>,
       << <<"f","e","b","r","u","a","r","y">>, 2 >>,
       << <<"m","a","r">>, 3 >>,
       << <<"m","a","r","c","h">>, 3 >>,
       << <<"a","p","r">>, 4 >>,
       << <<"a","p","r","i","l">>, 4 >>,
       << <<"m","a","y">>, 5 >>,
       << <<"j","u","n">>, 6 >>,
       << <<"j","u","n","e">>, 6 >>,
       << <<"j","u","l">>, 7 >>,
       << <<"j","u","l","y">>, 7 >>,
       << <<"a","u","g">>, 8 >>,
       << <<"a","u","g","u","s","t">>, 8 >>,
       << <<"s","e","p">>, 9 >>,
       << <<"s","e","p","t">>, 9 >>,
       << <<"s","e","p","t","e","m","b","e","r">>, 9 >>,
       << <<"o","c","t">>, 10 >>,
       << <<"o","c","t","o","b","e","r">>, 10 >>,
       << <<"n","o","v">>, 11 >>,
       << <<"n","o","v","e","m","b","e","r">>, 11 >>,
       << <<"d","e","c">>, 12 >>,
       << <<"d","e","c","e","m","b","e","r">>, 12 >> >>

W_present == << "p", "r", "e", "s", "e", "n", "t" >>

\* The month datetime.now() falls in.
Now == Date(2026, 11)

\* The result of normalize_date is a "YYYY-MM" string, "" or the raw input.
\* Date(y, m) stands for a "YYYY-MM" string that names a month; NoDate for
\* every other result (none of them is a date for calculate_duration and
\* calculate_total_experience, whenever the raw input is not itself of the
\* form "YYYY-MM").
WellFormed(y, m) == IF m >= 1 /\ m <= 12 THEN Date(y, m) ELSE NoDate

\* re.search(r"(20\d{2}|19\d{2}|\d{2})", s), the year built from it
SearchYear(s) ==
    LET starts == { i \in 1..Len(s) : IsDigitAt(s, i) /\ IsDigitAt(s, i + 1) }
    IN  IF starts = {} THEN NoMatch
        ELSE LET i == Least(starts)
                 four == /\ s[i] \in {"1", "2"}
                         /\ ToInt(s, i, i + 2) \in {19, 20}
                         /\ IsDigitAt(s, i + 2) /\ IsDigitAt(s, i + 3)
             IN  [found |-> TRUE,
                  a |-> IF four THEN ToInt(s, i, i + 4) ELSE 2000 + ToInt(s, i, i + 2),
                  b |-> 0]

\* normalize_date(date_str)
normalize_date(date_str) ==
    LET s == Strip(Lower(date_str))
        months == { k \in 1..Len(MONTH_MAP) : Contains(s, MONTH_MAP[k][1]) }
        year == SearchYear(s)
        d1 == Min2(RunEnd(s, 1, Digits), 3)
        d2 == Min2(RunEnd(s, d1 + 1, Digits), d1 + 5)
        slash == d1 > 1 /\ d1 <= Len(s) /\ s[d1] = "/" /\ d2 - (d1 + 1) >= 2
        year4 == /\ Len(s) >= 4
                 /\ ToInt(s, 1, 3) \in {19, 20} /\ s[1] \in {"1", "2"}
                 /\ IsDigitAt(s, 3) /\ IsDigitAt(s, 4)
    IN  IF Len(date_str) = 0 THEN NoDate
        ELSE IF Contains(s, W_present) THEN Now
        ELSE IF months # {} /\ year.found
             THEN WellFormed(year.a, MONTH_MAP[Least(months)][2])
        ELSE IF slash
             THEN IF d2 - (d1 + 1) = 2
                  THEN WellFormed(2000 + ToInt(s, d1 + 1, d2), ToInt(s, 1, d1))
                  ELSE IF d2 - (d1 + 1) = 4
                  THEN WellFormed(ToInt(s, d1 + 1, d2), ToInt(s, 1, d1))
                  ELSE NoDate
        ELSE IF year4 THEN Date(ToInt(s, 1, 5), 1)
        ELSE NoDate

\* lower-case role fragments and the titles they stand for, in iteration
\* order
ROLE_NORMALIZATION ==
    << << <<"s","o","f","t","w","a","r","e"," ","i","n","t","e","r","n">>,
          <<"S","o","f","t","w","a","r","e"," ","I","n","t","e","r","n">> >>,
       << <<"s","d","e"," ","i","n","t","e","r","n">>,
          <<"S","o","f","t","w","a","r","e"," ","D","e","v","e","l","o","p","m","e","n","t"," ","I","n","t","e","r","n">> >>,
       << <<"d","e","v","e","l","o","p","e","r"," ","i","n","t","e","r","n">>,
          <<"S","o","f","t","w","a","r","e"," ","D","e","v","e","l","o","p","e","r"," ","I","n","t","e","r","n">> >>,
       << <<"w","e","b"," ","i","n","t","e","r","n">>,
          <<"W","e","b"," ","D","e","v","e","l","o","p","m","e","n","t"," ","I","n","t","e","r","n">> >>,
       << <<"d","a","t","a"," ","i","n","t","e","r","n">>,
          <<"D","a","t","a"," ","S","c","i","e","n","c","e"," ","I","n","t","e","r","n">> >>,
       << <<"m","l"," ","i","n","t","e","r","n">>,
          <<"M","a","c","h","i","n","e"," ","L","e","a","r","n","i","n","g"," ","I","n","t","e","r","n">> >>,
       << <<"p","y","t","h","o","n"," ","d","e","v","e","l","o","p","e","r">>,
          <<"P","y","t","h","o","n"," ","D","e","v","e","l","o","p","e","r">> >>,
       << <<"w","e","b"," ","d","e","v","e","l","o","p","e","r">>,
          <<"W","e","b"," ","D","e","v","e","l","o","p","e","r">> >>,
       << <<"f","r","o","n","t","e","n","d"," ","d","e","v","e","l","o","p","e","r">>,
          <<"F","r","o","n","t","e","n","d"," ","D","e","v","e","l","o","p","e","r">> >>,
       << <<"b","a","c","k","e","n","d"," ","d","e","v","e","l","o","p","e","r">>,
          <<"B","a","c","k","e","n","d"," ","D","e","v","e","l","o","p","e","r">> >>,
       << <<"f","u","l","l"," ","s","t","a","c","k"," ","d","e","v","e","l","o","p","e","r">>,
          <<"F","u","l","l"," ","S","t","a","c","k"," ","D","e","v","e","l","o","p","e","r">> >> >>

W_at == << "a", "t" >>
W_for == << "f", "o", "r" >>

\* re.sub(r"\b(at|for)\b", "", r), from position i on
RECURSIVE DropAtFor(_, _)
DropAtFor(r, i) ==
    LET Word(w) == /\ OccursAt(r, i, w)
                   /\ WordBoundary(r, i)
                   /\ WordBoundary(r, i + Len(w))
    IN  IF i > Len(r) THEN << >>
        ELSE IF Word(W_at) THEN DropAtFor(r, i + Len(W_at))
        ELSE IF Word(W_for) THEN DropAtFor(r, i + Len(W_for))
        ELSE << r[i] >> \o DropAtFor(r, i + 1)

IsLetter(c) == c \in Range(UpperLetters) \cup Range(LowerLetters)

\* str.title(): a letter is upper case after a non-letter, else lower case
Title(s) ==
    [i \in 1..Len(s) |->
        IF i = 1 \/ ~IsLetter(s[i - 1]) THEN UpperChar(s[i]) ELSE LowerChar(s[i])]

\* normalize_role(role) for a string role
normalize_role(role) ==
    LET r == Strip(DropAtFor(Strip(Lower(role)), 1))
        known == { k \in 1..Len(ROLE_NORMALIZATION) : Contains(r, ROLE_NORMALIZATION[k][1]) }
    IN  IF known # {} THEN ROLE_NORMALIZATION[Least(known)][2] ELSE Title(r)

\* s.split(c) for one character c
RECURSIVE SplitOn(_, _)
SplitOn(s, c) ==
    LET cuts == { i \in 1..Len(s) : s[i] = c }
    IN  IF cuts = {} THEN << s >>
        ELSE << SubSeq(s, 1, Least(cuts) - 1) >>
                 \o SplitOn(SubSeq(s, Least(cuts) + 1, Len(s)), c)

SentenceEnd == { ".", "!", "?" }

\* re.split(r"(?<=[.!?])\s+", s) when keep, re.split(r"[.!?]\s+", s)
\* otherwise
RECURSIVE SplitSentences(_, _)
SplitSentences(s, keep) ==
    LET cuts == { i \in 2..Len(s) : s[i - 1] \in SentenceEnd /\ IsSpace(s[i]) }
    IN  IF cuts = {} THEN << s >>
        ELSE LET i == Least(cuts)
                 j == RunEnd(s, i, Spaces)
             IN  << SubSeq(s, 1, IF keep THEN i - 1 ELSE i - 2) >>
                     \o SplitSentences(SubSeq(s, j, Len(s)), keep)

Stripped(q) == [i \in 1..Len(q) |-> Strip(q[i])]
NonEmpty(q) == SelectSeq(q, LAMBDA s : Len(s) > 0)

\* A description is a string or a list of strings.
DescText(text) == [k |-> "str", text |-> text, items |-> << >>]
DescList(items) == [k |-> "list", text |-> << >>, items |-> items]

\* convert_description_to_list(desc), for a string that is not a JSON list
convert_description_to_list(desc) ==
    IF desc.k # "str" THEN << >>
    ELSE LET d == Strip(desc.text)
             sentences == SplitSentences(d, TRUE)
         IN  IF Len(sentences) > 1 /\ Len(sentences) <= 6
             THEN NonEmpty(Stripped(sentences))
             ELSE << d >>

RECURSIVE Join(_, _)
Join(q, sep) ==
    IF Len(q) = 0 THEN << >>
    ELSE IF Len(q) = 1 THEN q[1]
    ELSE q[1] \o sep \o Join(Tail(q), sep)

RECURSIVE Flatten(_)
Flatten(qq) == IF Len(qq) = 0 THEN << >> ELSE qq[1] \o Flatten(Tail(qq))

\* line.lstrip("-* ") followed by strip(), "*" standing for the bullet sign
Unbullet(line) == Strip(SubSeq(line, RunEnd(line, 1, {"-", "*", " "}), Len(line)))

\* number of words of s.split()
WordCount(s) ==
    Cardinality({ i \in 1..Len(s) : ~IsSpace(s[i]) /\ (i = 1 \/ IsSpace(s[i - 1])) })

\* The description of a cleaned experience entry.  With no raw text, the
\* fallback for an empty list keeps only the lines that start with a
\* bullet sign, and splits those of more than 18 words into sentences.
clean_description(desc) ==
    LET desc_list == convert_description_to_list(desc)
        raw_desc == Join(desc.items, << "\n" >>)
        lines == Stripped(SplitOn(raw_desc, "\n"))
        bullets == [i \in 1..Len(SelectSeq(lines, LAMBDA l : Len(l) > 0 /\ l[1] \in {"-", "*"})) |->
                      Unbullet(SelectSeq(lines, LAMBDA l : Len(l) > 0 /\ l[1] \in {"-", "*"})[i])]
        Pieces(d) == IF WordCount(d) > 18
                     THEN SelectSeq(Stripped(SplitSentences(d, FALSE)), LAMBDA p : Len(p) > 3)
                     ELSE << d >>
    IN  IF Len(desc_list) > 0 THEN desc_list
        ELSE Flatten([i \in 1..Len(bullets) |-> Pieces(bullets[i])])

\* calculate_total_experience(exp_list): the months covered by the merged
\* [start, end] intervals of the entries with two dates and start <= end,
\* as years rounded to 2 decimals (in hundredths of a year).
MonthIndex(date) == 12 * date.y + date.m

RemoveAt(q, i) == SubSeq(q, 1, i - 1) \o SubSeq(q, i + 1, Len(q))

\* intervals.sort(key=lambda x: x[0]) (a stable sort)
RECURSIVE SortedByStart(_)
SortedByStart(intervals) ==
    IF Len(intervals) <= 1 THEN intervals
    ELSE LET first == Least({ i \in 1..Len(intervals) :
                                \A j \in 1..Len(intervals) : intervals[i][1] <= intervals[j][1] })
         IN  << intervals[first] >> \o SortedByStart(RemoveAt(intervals, first))

\* the merge loop: curr is the open interval, i the next one to read
RECURSIVE MergedMonths(_, _, _)
MergedMonths(intervals, i, curr) ==
    LET Span(iv) == Max2(0, iv[2] - iv[1])
    IN  IF i > Len(intervals) THEN Span(curr)
        ELSE IF intervals[i][1] <= curr[2]
        THEN MergedMonths(intervals, i + 1, << curr[1], Max2(curr[2], intervals[i][2]) >>)
        ELSE Span(curr) + MergedMonths(intervals, i + 1, intervals[i])

calculate_total_experience(exp_list) ==
    LET dated == SelectSeq(exp_list, LAMBDA e :
                     /\ e.start_date.ok /\ e.end_date.ok
                     /\ MonthIndex(e.start_date) <= MonthIndex(e.end_date))
        raw == [i \in 1..Len(dated) |->
                   << MonthIndex(dated[i].start_date), MonthIndex(dated[i].end_date) >>]
        sorted == SortedByStart(raw)
    IN  IF Len(dated) = 0 THEN 0
        ELSE PyRound(100 * MergedMonths(sorted, 2, sorted[1]), 12)

\* extract_keywords_from_text(text, alias_map): the canonical names of
\* the aliases that occur in the lower-cased text
extract_keywords_from_text(text) ==
    { ALL_JD_ALIASES[k][2] : k \in { n \in 1..Len(ALL_JD_ALIASES) :
                                       Contains(Lower(text), ALL_JD_ALIASES[n][1]) } }

Before(a, b) == MonthIndex(a) < MonthIndex(b)

\* One entry of clean_exp.  Without raw text the date fallback finds
\* nothing; two "YYYY-MM" strings compare as their months do.
clean_experience(exp) ==
    LET sd == normalize_date(Strip(exp.start_date))
        ed == normalize_date(Strip(exp.end_date))
        swap == sd.ok /\ ed.ok /\ Before(ed, sd)
    IN  [role |-> normalize_role(exp.role),
         start_date |-> IF swap THEN ed ELSE sd,
         end_date |-> IF swap THEN sd ELSE ed,
         description |-> clean_description(exp.description)]

\* the skill-wise years of validate_resume_data, in hundredths
relevant_experience_map(clean_exp) ==
    LET Keywords(e) == extract_keywords_from_text(e.role)
                         \cup extract_keywords_from_text(Join(e.description, << " " >>))
        all == UNION { Keywords(clean_exp[i]) : i \in 1..Len(clean_exp) }
        years == [i \in 1..Len(clean_exp) |->
                     calculate_duration(clean_exp[i].start_date, clean_exp[i].end_date)]
    IN  [kw \in all |->
            SumOver(years, { i \in 1..Len(clean_exp) : kw \in Keywords(clean_exp[i]) })]

JunkNames == { << "-" >>, << "-", "-" >>, << "n", "o", "n", "e" >>,
               << "n", "u", "l", "l" >>, << "n", "/", "a" >> }

\* the projects kept by validate_resume_data: named, not junk, first of
\* each lower-cased name
RECURSIVE CleanProjects(_, _, _)
CleanProjects(proj_list, i, acc) ==
    IF i > Len(proj_list) THEN acc
    ELSE LET nm == Strip(proj_list[i].name)
             ds == Strip(proj_list[i].description)
         IN  CleanProjects(proj_list, i + 1,
                 IF Len(nm) = 0 \/ nm \in JunkNames
                    \/ \E j \in 1..Len(acc) : Lower(acc[j].name) = Lower(nm)
                 THEN acc
                 ELSE Append(acc, [name |-> nm, description |-> ds]))

CertificateJunk == { << "-" >>, << "n", "/", "a" >>, << "n", "u", "l", "l" >>,
                     << "n", "o", "n", "e" >> }

\* the comma-separated parts of one certificate string, bullets removed
CertificateParts(cert) ==
    LET name == Unbullet(Strip(cert))
    IN  IF Len(name) = 0 \/ Lower(name) \in CertificateJunk THEN << >>
        ELSE NonEmpty(Stripped(SplitOn(name, ",")))

\* the first of each lower-cased name
RECURSIVE FirstOfEach(_, _, _)
FirstOfEach(names, i, acc) ==
    IF i > Len(names) THEN acc
    ELSE FirstOfEach(names, i + 1,
             IF \E j \in 1..Len(acc) : Lower(acc[j]) = Lower(names[i]) THEN acc
             ELSE Append(acc, names[i]))

\* clean_cert of validate_resume_data, for a list of certificate strings
CleanCertificates(cert_list) ==
    FirstOfEach(Flatten([i \in 1..Len(cert_list) |-> CertificateParts(cert_list[i])]), 1, << >>)

\* final_cert of validate_resume_data: no name that is part of another
RECURSIVE FinalCertificates(_, _, _)
FinalCertificates(clean_cert, i, final_cert) ==
    IF i > Len(clean_cert) THEN final_cert
    ELSE LET c == Lower(SquashSpaces(Strip(clean_cert[i])))
             Norm(fc) == Lower(SquashSpaces(Strip(fc)))
             is_sub == \E j \in 1..Len(final_cert) :
                          Contains(Norm(final_cert[j]), c) /\ c # Norm(final_cert[j])
             kept == SelectSeq(final_cert,
                        LAMBDA fc : ~(Contains(c, Norm(fc)) /\ c # Norm(fc)))
         IN  FinalCertificates(clean_cert, i + 1,
                 IF is_sub THEN final_cert
                 ELSE IF \E j \in 1..Len(kept) : kept[j] = clean_cert[i] THEN kept
                 ELSE Append(kept, clean_cert[i]))

\* The salary found in the raw text, after the two rules of
\* validate_resume_data (expected >= current; a missing expected salary
\* is the current one).
Salary(current, expected) == [current_ctc_lpa |-> current, expected_ctc_lpa |-> expected]

clean_salary(raw_salary) ==
    LET current == raw_salary.current_ctc_lpa
        expected == raw_salary.expected_ctc_lpa
    IN  IF current.k = "num" /\ (expected.k # "num" \/ Less(expected, current))
        THEN Salary(current, current)
        ELSE Salary(current, expected)

\* validate_resume_data(data): the fields the scorer reads.  data carries
\* no raw text besides a salary statement, whose reading by
\* extract_salary_from_resume is data.raw_salary.
validate_resume_data(data) ==
    LET clean_exp == [i \in 1..Len(data.experience) |-> clean_experience(data.experience[i])]
    IN  [skills |-> NonEmpty(Stripped(data.skills)),
         experience |-> clean_exp,
         projects |-> CleanProjects(data.projects, 1, << >>),
         summary |-> Strip(data.summary),
         certificates |-> FinalCertificates(CleanCertificates(data.certificates), 1, << >>),
         education |-> [i \in 1..Len(data.education) |-> [degree |-> Strip(data.education[i].degree)]],
         salary |-> clean_salary(data.raw_salary),
         relevant_experience_map |-> relevant_experience_map(clean_exp),
         total_experience_years |-> calculate_total_experience(clean_exp)]

\* ------------------------------------------------------------------------
\* Local scoring (matcher.score_resume_against_jd)
\* ------------------------------------------------------------------------

\* matcher.WEIGHTS, in hundredths
WEIGHTS ==
    [skills_score |-> 30, experience_score |-> 25,
     relevant_experience_score |-> 10, projects_score |-> 10,
     certificates_score |-> 5, tools_score |-> 5, technologies_score |-> 5,
     qualification_score |-> 5, responsibilities_score |-> 3,
     salary_score |-> 2]

\* validate_jd(jd_raw): the fields the scorer reads.  The lists of skills,
\* technologies and tools are normalised, the experience text becomes a
\* range, and the criteria of every scoring block are scaled.
validate_jd(jd_raw) ==
    [skills |-> normalize_list(jd_raw.skills),
     technologies |-> normalize_list(jd_raw.technologies),
     tools |-> normalize_list(jd_raw.tools),
     projects |-> jd_raw.projects,
     certificates |-> jd_raw.certificates,
     qualification |-> jd_raw.qualification,
     responsibilities |-> jd_raw.responsibilities,
     job_title |-> jd_raw.job_title,
     experience_range |-> parse_experience_range(jd_raw.experience),
     relevant_experience_criteria |-> scale_criteria_dict(jd_raw.relevant_experience_criteria),
     salary_criteria |-> scale_criteria_dict(jd_raw.salary_criteria)]

\* s.split()
RECURSIVE Words(_)
Words(s) ==
    LET from == RunEnd(s, 1, Spaces)
        to == RunEnd(s, from, { s[i] : i \in 1..Len(s) } \ Spaces)
    IN  IF from > Len(s) THEN << >>
        ELSE << SubSeq(s, from, to - 1) >> \o Words(SubSeq(s, to, Len(s)))

STOPWORDS ==
    { <<"t","h","e">>,
      <<"a","n","d">>,
      <<"a">>,
      <<"a","n">>,
      <<"f","o","r">>,
      <<"i","n">>,
      <<"o","f">>,
      <<"t","o">>,
      <<"o","n">>,
      <<"w","i","t","h">>,
      <<"u","s","i","n","g">>,
      <<"b","a","s","e","d">>,
      <<"r","e","l","a","t","e","d">>,
      <<"s","y","s","t","e","m">>,
      <<"c","r","e","a","t","e">>,
      <<"b","u","i","l","d">>,
      <<"b","u","i","l","t">>,
      <<"d","e","v","e","l","o","p">>,
      <<"d","e","v","e","l","o","p","e","d">>,
      <<"d","e","v","e","l","o","p","e","r">>,
      <<"d","e","v","e","l","o","p","m","e","n","t">> }

\* _tokenize_phrase(text)
tokenize_phrase(text) ==
    LET txt == [i \in 1..Len(text) |->
                   IF LowerChar(text[i]) \in Range(LowerLetters) \cup Digits \cup {" "}
                   THEN LowerChar(text[i]) ELSE " "]
    IN  SelectSeq(Words(txt), LAMBDA t : t \notin STOPWORDS)

\* the first occurrence of each item of q
RECURSIVE Distinct(_, _, _)
Distinct(q, i, acc) ==
    IF i > Len(q) THEN acc
    ELSE Distinct(q, i + 1,
             IF \E j \in 1..Len(acc) : acc[j] = q[i] THEN acc ELSE Append(acc, q[i]))

\* _extract_project_keywords_from_jd(jd_projects)
extract_project_keywords_from_jd(jd_projects) ==
    Distinct(Flatten([i \in 1..Len(jd_projects) |-> tokenize_phrase(jd_projects[i])]), 1, << >>)

\* text_corpus of score_resume_against_jd: skills, then role and joined
\* description of each experience entry, then name and description of
\* each project, then the summary; empty strings dropped
TextCorpus(r) ==
    NonEmpty(r.skills
        \o Flatten([i \in 1..Len(r.experience) |->
               << r.experience[i].role, Join(r.experience[i].description, << " " >>) >>])
        \o Flatten([i \in 1..Len(r.projects) |->
               << r.projects[i].name, r.projects[i].description >>])
        \o << r.summary >>)

\* ------------------------------------------------------------------------
\* Experience timeline (matcher._parse_date,
\* matcher._calculate_experience_from_timeline)
\* ------------------------------------------------------------------------
\* %b and %B of strptime on a lower-cased string: month names by number
MONTH_ABBR ==
    << << "j", "a", "n" >>, << "f", "e", "b" >>, << "m", "a", "r" >>, << "a", "p", "r" >>, << "m", "a", "y" >>, << "j", "u", "n" >>,
       << "j", "u", "l" >>, << "a", "u", "g" >>, << "s", "e", "p" >>, << "o", "c", "t" >>, << "n", "o", "v" >>, << "d", "e", "c" >> >>
MONTH_FULL ==
    << << "j", "a", "n", "u", "a", "r", "y" >>, << "f", "e", "b", "r", "u", "a", "r", "y" >>, << "m", "a", "r", "c", "h" >>, << "a", "p", "r", "i", "l" >>, << "m", "a", "y" >>, << "j", "u", "n", "e" >>,
       << "j", "u", "l", "y" >>, << "a", "u", "g", "u", "s", "t" >>, << "s", "e", "p", "t", "e", "m", "b", "e", "r" >>, << "o", "c", "t", "o", "b", "e", "r" >>, << "n", "o", "v", "e", "m", "b", "e", "r" >>, << "d", "e", "c", "e", "m", "b", "e", "r" >> >>

W_current == << "c", "u", "r", "r", "e", "n", "t" >>
W_now == << "n", "o", "w" >>

\* datetime(y, m, d) as a record, or the ValueError of strptime
Day(y, m, d) == [ok |-> TRUE, y |-> y, m |-> m, d |-> d]
NoDay == [ok |-> FALSE, y |-> 0, m |-> 0, d |-> 0]

IsLeap(y) == (y % 4 = 0 /\ y % 100 # 0) \/ y % 400 = 0
DaysInMonth(y, m) ==
    IF m = 2 THEN (IF IsLeap(y) THEN 29 ELSE 28)
    ELSE IF m \in {4, 6, 9, 11} THEN 30 ELSE 31

\* the datetime constructor: a date of the calendar or ValueError
Calendar(y, m, d) ==
    IF y >= 1 /\ m >= 1 /\ m <= 12 /\ d >= 1 /\ d <= DaysInMonth(y, m)
    THEN Day(y, m, d) ELSE NoDay

\* a strptime field: the digits from i up to the next non-digit
Field(s, i) == [a |-> i, b |-> RunEnd(s, i, Digits)]
FieldLen(f) == f.b - f.a
FieldValue(s, f) == ToInt(s, f.a, f.b)
\* %Y takes four digits, %m and %d one or two
IsY(f) == FieldLen(f) = 4
IsMD(f) == FieldLen(f) \in {1, 2}
\* a literal character of the format at position i
Lit(s, i, c) == i <= Len(s) /\ s[i] = c
AtEnd(s, i) == i = Len(s) + 1

\* "%b %Y" and "%B %Y": a month name, white space, a year
MonthYear(s, names) ==
    LET hits == { k \in 1..12 :
                    LET j == 1 + Len(names[k])
                        sp == RunEnd(s, j, Spaces)
                        y == Field(s, sp)
                    IN  OccursAt(s, 1, names[k]) /\ sp > j /\ IsY(y) /\ AtEnd(s, y.b) }
    IN  IF hits = {} THEN NoDay
        ELSE LET k == Least(hits)
                 y == Field(s, RunEnd(s, 1 + Len(names[k]), Spaces))
             IN  Calendar(FieldValue(s, y), k, 1)

\* "%Y-%m-%d" and "%Y/%m/%d"
YearMonthDay(s, sep) ==
    LET y == Field(s, 1)
        m == Field(s, y.b + 1)
        d == Field(s, m.b + 1)
    IN  IF IsY(y) /\ Lit(s, y.b, sep) /\ IsMD(m) /\ Lit(s, m.b, sep) /\ IsMD(d) /\ AtEnd(s, d.b)
        THEN Calendar(FieldValue(s, y), FieldValue(s, m), FieldValue(s, d))
        ELSE NoDay

\* "%m/%Y"
MonthSlashYear(s) ==
    LET m == Field(s, 1)
        y == Field(s, m.b + 1)
    IN  IF IsMD(m) /\ Lit(s, m.b, "/") /\ IsY(y) /\ AtEnd(s, y.b)
        THEN Calendar(FieldValue(s, y), FieldValue(s, m), 1)
        ELSE NoDay

\* "%Y"
YearOnly(s) ==
    LET y == Field(s, 1)
    IN  IF IsY(y) /\ AtEnd(s, y.b) THEN Calendar(FieldValue(s, y), 1, 1) ELSE NoDay

\* "%d %b %Y"
DayMonthYear(s) ==
    LET d == Field(s, 1)
        n == RunEnd(s, d.b, Spaces)
        hits == { k \in 1..12 :
                    LET j == n + 3
                        sp == RunEnd(s, j, Spaces)
                        y == Field(s, sp)
                    IN  OccursAt(s, n, MONTH_ABBR[k]) /\ sp > j /\ IsY(y) /\ AtEnd(s, y.b) }
    IN  IF IsMD(d) /\ n > d.b /\ hits # {}
        THEN Calendar(FieldValue(s, Field(s, RunEnd(s, n + 3, Spaces))), Least(hits),
                      FieldValue(s, d))
        ELSE NoDay

\* The formats of _parse_date in the order it tries them.
FirstFormat(ds) ==
    LET tries == << MonthYear(ds, MONTH_ABBR), MonthYear(ds, MONTH_FULL),
                    YearMonthDay(ds, "-"), YearMonthDay(ds, "/"),
                    MonthSlashYear(ds), YearOnly(ds), DayMonthYear(ds) >>
        ok == { k \in 1..Len(tries) : tries[k].ok }
    IN  IF ok = {} THEN NoDay ELSE tries[Least(ok)]

\* date.toordinal(): days since 0001-01-01, that day being 1
DaysBeforeYear(y) == 365 * (y - 1) + ((y - 1) \div 4) - ((y - 1) \div 100) + ((y - 1) \div 400)
RECURSIVE DaysBeforeMonth(_, _)
DaysBeforeMonth(y, m) ==
    IF m <= 1 THEN 0 ELSE DaysBeforeMonth(y, m - 1) + DaysInMonth(y, m - 1)
ToOrdinal(day) == DaysBeforeYear(day.y) + DaysBeforeMonth(day.y, day.m) + day.d

\* A datetime is kept as a count of half days: a parsed date is a midnight
\* (an even count) and datetime.now() falls inside its day (an odd count),
\* so that "<" between the two and the whole days of a difference come
\* out as they do for datetimes.
NoInstant == -1
Midnight(day) == 2 * ToOrdinal(day)
Today == Day(Now.y, Now.m, 1)
NowInstant == Midnight(Today) + 1

\* _parse_date on ds, the stripped lower-case date string
ParseLowered(ds) ==
    LET parsed == FirstFormat(ds)
    IN  IF Len(ds) = 0 THEN NoInstant
        ELSE IF Contains(ds, W_present) \/ Contains(ds, W_current) \/ Contains(ds, W_now)
        THEN NowInstant
        ELSE IF parsed.ok THEN Midnight(parsed) ELSE NoInstant

\* _parse_date(date_str): an instant, or NoInstant for None
parse_date(date_str) ==
    CHOOSE instant \in { ParseLowered(ds) : ds \in { Strip(Lower(date_str)) } } : TRUE

\* (end - start).days
WholeDays(start, end) == (end - start) \div 2

\* One entry of an experience list as the timeline reads it: the role, the
\* two date strings, the declared "years" in hundredths (0 when the key is
\* missing) and whether the role's similarity to the job title reaches 0.35.
TimelineEntry(role, start_date, end_date, years, relevant) ==
    [role |-> role, start_date |-> start_date, end_date |-> end_date,
     years |-> years, relevant |-> relevant]

\* valid_indices: every entry, less those the relevance filter removes
\* (asked only with a job title and a model; entries without a role stay)
ValidEntries(experience_list, jd_job_title, model) ==
    IF Len(Strip(jd_job_title)) > 0 /\ model
    THEN SelectSeq(experience_list, LAMBDA e : Len(Strip(e.role)) = 0 \/ e.relevant)
    ELSE experience_list

\* intervals: the (start, end) of the entries whose two dates parse and
\* do not run backwards
Intervals(valid) ==
    LET parsed == [i \in 1..Len(valid) |->
                      << parse_date(valid[i].start_date), parse_date(valid[i].end_date) >>]
    IN  SelectSeq(parsed, LAMBDA p : p[1] # NoInstant /\ p[2] # NoInstant /\ p[2] >= p[1])

\* the merge loop summed without the merge: every interval on its own
RECURSIVE NaiveDays(_, _, _)
NaiveDays(intervals, i, curr) ==
    IF i > Len(intervals) THEN WholeDays(curr[1], curr[2])
    ELSE WholeDays(curr[1], curr[2]) + NaiveDays(intervals, i + 1, intervals[i])

\* the merge loop and the sum of days: curr is the open interval, i the
\* next one to read
RECURSIVE MergedDays(_, _, _)
MergedDays(intervals, i, curr) ==
    IF i > Len(intervals) THEN WholeDays(curr[1], curr[2])
    ELSE IF intervals[i][1] < curr[2]
    THEN MergedDays(intervals, i + 1, << curr[1], Max2(curr[2], intervals[i][2]) >>)
    ELSE WholeDays(curr[1], curr[2]) + MergedDays(intervals, i + 1, intervals[i])

\* round(total_days / 365.25, 2), in hundredths of a year
YearsOfDays(total_days) == PyRound(400 * total_days, 1461)

\* the fallback and the merge, given valid_indices and the intervals read
TimelineTotal(valid, intervals) ==
    IF Len(intervals) = 0
    THEN SumOver([i \in 1..Len(valid) |-> valid[i].years], 1..Len(valid))
    ELSE YearsOfDays(MergedDays(intervals, 2, intervals[1]))

\* _calculate_experience_from_timeline(experience_list, jd_job_title), in
\* hundredths of a year.  Each stage is a value picked from a one-element
\* set, which names it once for the stages after it.
calculate_experience_from_timeline(experience_list, jd_job_title, model) ==
    IF Len(experience_list) = 0 THEN 0
    ELSE CHOOSE total \in
             UNION { UNION { { TimelineTotal(valid, sorted) :
                                 sorted \in { SortedByStart(read) } } :
                             read \in { Intervals(valid) } } :
                     valid \in { ValidEntries(experience_list, jd_job_title, model) } } : TRUE

\* _calculate_experience_from_timeline on the experience list of a validated
\* resume: the dates of a cleaned entry are "" or "YYYY-MM", which
\* parse_date does not read ("%Y-%m" is not one of its formats), so no
\* interval is found with or without the relevance filter, and no cleaned
\* entry has a "years" key to fall back on.
ValidatedTimeline(clean_exp, jd_job_title, model) == 0

\* total_years: the timeline when it is positive, else the extracted years
TotalYears(r, jd, model) ==
    LET from_timeline == ValidatedTimeline(r.experience, jd.job_title, model)
    IN  IF from_timeline > 0 THEN from_timeline ELSE r.total_experience_years

\* the subsequences of q
SubSeqs(q) ==
    { SelectSeq([i \in 1..Len(q) |-> << q[i], i >>], LAMBDA p : p[2] \in K) :
        K \in SUBSET (1..Len(q)) }

\* a matcher that asks the model whether or not there is one
SemanticFoundUnguarded(source_texts, missing_targets, available) ==
    IF Len(missing_targets) = 0 \/ Len(source_texts) = 0
    THEN { << >> }
    ELSE { [i \in 1..Len(pairs) |-> pairs[i][1]] : pairs \in SubSeqs(missing_targets) }

\* _semantic_check_missing(source_texts, missing_targets): the targets the
\* model can return as found.  Which targets pass the threshold is the
\* model's matter: any of them may.
SemanticFound(source_texts, missing_targets, available) ==
    IF Len(missing_targets) = 0 \/ Len(source_texts) = 0 \/ ~available
    THEN { << >> }
    ELSE { [i \in 1..Len(pairs) |-> pairs[i][1]] : pairs \in SubSeqs(missing_targets) }

\* int(round(100.0 * matched / count))
Ratio(matched_count, count) == PyRound(100 * matched_count, count)

\* Strings of the resumes and JDs below.
S_React == << "R", "e", "a", "c", "t" >>
S_Python == << "P", "y", "t", "h", "o", "n" >>
S_Docker == << "D", "o", "c", "k", "e", "r" >>
S_Git == << "G", "i", "t" >>
S_AWS == << "A", "W", "S" >>
S_BTech == << "B", ".", "T", "e", "c", "h" >>
S_python_developer == << "P", "y", "t", "h", "o", "n", " ", "D", "e", "v", "e", "l", "o", "p", "e", "r" >>
S_built_docker_images == << "B", "u", "i", "l", "t", " ", "D", "o", "c", "k", "e", "r", " ", "i", "m", "a", "g", "e", "s", "." >>
S_led_a_team == << "L", "e", "d", " ", "a", " ", "t", "e", "a", "m" >>
S_shop == << "S", "h", "o", "p" >>
S_react_store == << "R", "e", "a", "c", "t", " ", "s", "t", "o", "r", "e" >>
S_build_a_react_store == << "B", "u", "i", "l", "d", " ", "a", " ", "R", "e", "a", "c", "t", " ", "s", "t", "o", "r", "e" >>
S_2020_03 == << "2", "0", "2", "0", "-", "0", "3" >>
S_2023_09 == << "2", "0", "2", "3", "-", "0", "9" >>
S_3_8_years == << "3", "-", "8", " ", "y", "e", "a", "r", "s" >>
S_up_to_10_years == << "u", "p", " ", "t", "o", " ", "1", "0", " ", "y", "e", "a", "r", "s" >>
S_below_2 == << "<", "2" >>
S_at_least_2 == << ">", "=", "2" >>
S_below_8 == << "<", "8" >>

\* Parsed resumes: with or without skills, one job or none, a summary or
\* none, and the remaining sections all empty or all filled.
DevJob ==
    [role |-> S_python_developer, start_date |-> S_2020_03, end_date |-> S_2023_09,
     description |-> DescText(S_built_docker_images)]

ParsedResumes ==
    { [skills |-> sk, experience |-> ex, summary |-> su,
       projects |-> rest.projects, certificates |-> rest.certificates,
       education |-> rest.education, raw_salary |-> rest.raw_salary] :
        sk \in { << >>, << S_React >>, << S_Python, S_Docker >> },
        ex \in { << >>, << DevJob >> },
        su \in { << >>, S_led_a_team },
        rest \in { [projects |-> << >>, certificates |-> << >>, education |-> << >>,
                    raw_salary |-> Salary(Null, Null)],
                   [projects |-> << [name |-> S_shop, description |-> S_react_store] >>,
                    certificates |-> << S_AWS >>,
                    education |-> << [degree |-> S_BTech] >>,
                    raw_salary |-> Salary(Num(6, 1), Null)] } }

\* Job descriptions: the skills of tests/test_hybrid_cases.py or one skill
\* that has an alias, an experience text, responsibilities or none, and the
\* remaining sections all empty or all filled.
JobDescriptions ==
    { [skills |-> sk, experience |-> ex, responsibilities |-> re,
       technologies |-> rest.technologies, tools |-> rest.tools,
       projects |-> rest.projects, certificates |-> rest.certificates,
       qualification |-> rest.qualification, job_title |-> rest.job_title,
       relevant_experience_criteria |-> rest.relevant_experience_criteria,
       salary_criteria |-> rest.salary_criteria] :
        sk \in { << >>, << S_React >>, << S_Python, S_Docker >> },
        ex \in { << >>, S_3_8_years, S_up_to_10_years },
        re \in { << >>, << S_led_a_team >> },
        rest \in { [technologies |-> << >>, tools |-> << >>, projects |-> << >>,
                    certificates |-> << >>, qualification |-> << >>,
                    job_title |-> << >>,
                    relevant_experience_criteria |-> << >>,
                    salary_criteria |-> << >>],
                   [technologies |-> << S_Docker >>, tools |-> << S_Git >>,
                    projects |-> << S_build_a_react_store >>,
                    certificates |-> << S_AWS >>, qualification |-> S_BTech,
                    job_title |-> S_python_developer,
                    relevant_experience_criteria |->
                        << Criterion(S_below_2, Num(1, 1)),
                           Criterion(S_at_least_2, Num(2, 1)) >>,
                    salary_criteria |-> << Criterion(S_below_8, Num(100, 1)) >>] } }

NoScores == [k \in Categories |-> -1]

LocalInit ==
    /\ lpc = "start"
    /\ parsed_resume \in ParsedResumes
    /\ job_description \in JobDescriptions
    /\ semantic_model \in BOOLEAN
    /\ local_resume = << >>
    /\ local_jd = << >>
    /\ text_corpus = << >>
    /\ local_years = 0
    /\ scores = NoScores
    /\ local_out = << >>

\* "Normalize inputs", the text corpus and the total experience years
NormalizeInputs ==
    /\ lpc = "start"
    /\ local_resume' = validate_resume_data(parsed_resume)
    /\ local_jd' = validate_jd(job_description)
    /\ text_corpus' = TextCorpus(local_resume')
    /\ local_years' = TotalYears(local_resume', local_jd', semantic_model)
    /\ lpc' = "skills"
    /\ UNCHANGED << parsed_resume, job_description, semantic_model, scores, local_out >>
    /\ UNCHANGED notLocal

\* One hybrid category: the phrase match over source, the semantic match
\* over the text corpus for what is still missing, and the ratio of
\* matched targets to all targets (0 without targets).
Hybrid(at, key, source_texts, jd_targets, next) ==
    /\ lpc = at
    /\ LET found_ss == extract_matches(source_texts, jd_targets)
       IN  \E found_sem \in SemanticFound(text_corpus, found_ss.missing, semantic_model) :
              scores' = [scores EXCEPT ![key] =
                            IF Len(jd_targets) > 0
                            THEN Ratio(Len(found_ss.matched) + Len(found_sem), Len(jd_targets))
                            ELSE 0]
    /\ lpc' = next
    /\ UNCHANGED << parsed_resume, job_description, semantic_model, local_resume,
                    local_jd, text_corpus, local_years, local_out >>
    /\ UNCHANGED notLocal

\* One computed category.
Computed(at, key, value, next) ==
    /\ lpc = at
    /\ scores' = [scores EXCEPT ![key] = value]
    /\ lpc' = next
    /\ UNCHANGED << parsed_resume, job_description, semantic_model, local_resume,
                    local_jd, text_corpus, local_years, local_out >>
    /\ UNCHANGED notLocal

\* 1) Skills score
LocalSkillsScore ==
    Hybrid("skills", "skills_score", text_corpus, local_jd.skills, "technologies")

\* 2) Technologies score
LocalTechnologiesScore ==
    Hybrid("technologies", "technologies_score", text_corpus, local_jd.technologies, "tools")

\* 3) Tools score
LocalToolsScore ==
    Hybrid("tools", "tools_score", text_corpus, local_jd.tools, "projects")

\* 4) Projects score
LocalProjectsScore ==
    Hybrid("projects", "projects_score", text_corpus,
           extract_project_keywords_from_jd(local_jd.projects), "certificates")

\* 5) Certificates score.  The cleaned certificates are strings, and
\* c.get("name", "") raises AttributeError on the first of them.
LocalCertificatesScore ==
    \/ /\ lpc = "certificates"
       /\ Len(local_jd.certificates) > 0
       /\ Len(local_resume.certificates) > 0
       /\ lpc' = "raised"
       /\ UNCHANGED << parsed_resume, job_description, semantic_model, local_resume,
                       local_jd, text_corpus, local_years, scores, local_out >>
       /\ UNCHANGED notLocal
    \/ /\ lpc = "certificates"
       /\ ~(Len(local_jd.certificates) > 0 /\ Len(local_resume.certificates) > 0)
       /\ Hybrid("certificates", "certificates_score", << >>,
                 local_jd.certificates, "qualification")

\* 6) Qualification score
LocalQualificationScore ==
    LET jd_qual == local_jd.qualification
        edu_list == local_resume.education
        matches == \E i \in 1..Len(edu_list) :
                      /\ Len(edu_list[i].degree) > 0
                      /\ Contains(Lower(edu_list[i].degree), Lower(jd_qual))
    IN  Computed("qualification", "qualification_score",
                 IF Len(jd_qual) > 0 /\ matches THEN 100 ELSE 0, "responsibilities")

\* 7) Responsibilities score
LocalResponsibilitiesScore ==
    Hybrid("responsibilities", "responsibilities_score", text_corpus,
           local_jd.responsibilities, "experience")

\* 8) Experience score
LocalExperienceScore ==
    Computed("experience", "experience_score",
             compute_experience_score(Num(local_years, 100), local_jd.experience_range),
             "relevant_experience")

\* rmap.get(s, 0.0), then rmap.get(s.lower(), 0.0) when that is 0.0
SkillYears(rmap, s) ==
    IF s \in DOMAIN rmap /\ rmap[s] # 0 THEN rmap[s]
    ELSE IF Lower(s) \in DOMAIN rmap THEN rmap[Lower(s)]
    ELSE 0

\* candidate_rel_years: the mean over the JD skills, rounded to 2 decimals
CandidateRelYears(rmap, jd_skills) ==
    IF Len(jd_skills) = 0 THEN 0
    ELSE PyRound(SumOver([i \in 1..Len(jd_skills) |->
                              IF Len(jd_skills[i]) = 0 THEN 0
                              ELSE SkillYears(rmap, jd_skills[i])],
                         1..Len(jd_skills)),
                 Len(jd_skills))

\* 9) Relevant experience score
LocalRelevantExperienceScore ==
    Computed("relevant_experience", "relevant_experience_score",
             map_relevant_experience_to_bucket(
                 CandidateRelYears(local_resume.relevant_experience_map, local_jd.skills),
                 local_jd.relevant_experience_criteria),
             "salary")

\* expected_ctc_lpa or current_ctc_lpa
CandidateSalary(s) ==
    IF s.expected_ctc_lpa.k = "num" /\ s.expected_ctc_lpa.n # 0 THEN s.expected_ctc_lpa
    ELSE s.current_ctc_lpa

\* 10) Salary score
LocalSalaryScore ==
    Computed("salary", "salary_score",
             parse_salary_criteria_and_score(local_jd.salary_criteria,
                                             CandidateSalary(local_resume.salary)),
             "compose")

\* "Compose final map": the clamped scores and their weighted sum
Compose ==
    /\ lpc = "compose"
    /\ LET clamped == [k \in Categories |-> Max2(0, Min2(100, scores[k]))]
       IN  local_out' = [scores |-> clamped,
                         final_score |-> PyRound(SumOver([k \in Categories |-> clamped[k] * WEIGHTS[k]],
                                                         Categories), 100)]
    /\ lpc' = "done"
    /\ UNCHANGED << parsed_resume, job_description, semantic_model, local_resume,
                    local_jd, text_corpus, local_years, scores >>
    /\ UNCHANGED notLocal

LocalNext ==
    \/ NormalizeInputs
    \/ LocalSkillsScore
    \/ LocalTechnologiesScore
    \/ LocalToolsScore
    \/ LocalProjectsScore
    \/ LocalCertificatesScore
    \/ LocalQualificationScore
    \/ LocalResponsibilitiesScore
    \/ LocalExperienceScore
    \/ LocalRelevantExperienceScore
    \/ LocalSalaryScore
    \/ Compose

LocalStart ==
    OracleIdle /\ MatcherIdle /\ ExperienceIdle /\ LocalInit /\ TimelineIdle /\ SemanticIdle
    /\ WeightIdle /\ RegistryIdle /\ EvaluatorIdle /\ JobIdle /\ BucketIdle
SpecLocal == LocalStart /\ [][LocalNext]_vars

LocalDone == lpc = "done"

\* C5: on the local path a candidate without experience entries gets 0 for
\* experience_score, relevant_experience_score and responsibilities_score,
\* whatever the JD asks for, and final_score is the weighted sum of the
\* returned scores.
C5_NoExperienceNoExperienceScores ==
    (LocalDone /\ Len(parsed_resume.experience) = 0) =>
        /\ local_out.scores["experience_score"] = 0
        /\ local_out.scores["relevant_experience_score"] = 0
        /\ local_out.scores["responsibilities_score"] = 0
        /\ local_out.final_score =
              PyRound(SumOver([k \in Categories |-> local_out.scores[k] * WEIGHTS[k]],
                              Categories), 100)

\* the JD skill s stands as a whole word in one item of the skills list
VerbatimInSkills(s, skills) ==
    \E i \in 1..Len(skills) : Search(make_regex_pattern(s), skills[i])

\* C9: when every skill the JD requires appears verbatim as a whole word
\* in the candidate's skills list, skills_score is 100, with or without
\* the semantic model.
C9_ExactMatchesScoreFull ==
    (/\ LocalDone
     /\ Len(job_description.skills) > 0
     /\ \A i \in 1..Len(job_description.skills) :
            VerbatimInSkills(job_description.skills[i], parsed_resume.skills))
        => local_out.scores["skills_score"] = 100

\* ------------------------------------------------------------------------
\* The experience timeline calculators on their own
\* (matcher._calculate_experience_from_timeline,
\* validator.calculate_total_experience)
\* ------------------------------------------------------------------------
MaxEntries == 3

\* sd.split("-") and int() of a "YYYY-MM" string, date(y, m, 1): the month
\* it names, or NoDate when calculate_total_experience skips the entry
ParseYearMonth(sd) ==
    LET y == Field(sd, 1)
        m == Field(sd, y.b + 1)
    IN  IF Len(sd) = 7 /\ FieldLen(y) >= 1 /\ Lit(sd, y.b, "-") /\ FieldLen(m) >= 1
           /\ AtEnd(sd, m.b) /\ FieldValue(sd, y) >= 1
        THEN WellFormed(FieldValue(sd, y), FieldValue(sd, m))
        ELSE NoDate

\* the entries as calculate_total_experience reads them
YearMonthEntries(exp_list) ==
    [i \in 1..Len(exp_list) |->
        [start_date |-> ParseYearMonth(exp_list[i].start_date),
         end_date |-> ParseYearMonth(exp_list[i].end_date)]]

S_chef == << "C", "h", "e", "f" >>
S_jan_2019 == << "J", "a", "n", " ", "2", "0", "1", "9" >>
S_june_2020 == << "J", "u", "n", "e", " ", "2", "0", "2", "0" >>
S_03_2020 == << "0", "3", "/", "2", "0", "2", "0" >>
S_2021_01_01 == << "2", "0", "2", "1", "/", "0", "1", "/", "0", "1" >>
S_2021 == << "2", "0", "2", "1" >>
S_present == << "P", "r", "e", "s", "e", "n", "t" >>
S_2019_06_15 == << "2", "0", "1", "9", "-", "0", "6", "-", "1", "5" >>
S_15_jan_2020 == << "1", "5", " ", "J", "a", "n", " ", "2", "0", "2", "0" >>
S_2019_01 == << "2", "0", "1", "9", "-", "0", "1" >>
S_2020_06 == << "2", "0", "2", "0", "-", "0", "6" >>
S_2021_01 == << "2", "0", "2", "1", "-", "0", "1" >>

\* Experience entries: dates in the formats _parse_date reads and in the
\* "YYYY-MM" form of a validated resume; overlapping, nested, adjacent and
\* inverted spans; a declared "years"; a role below the relevance threshold.
TimelineUniverse ==
    { TimelineEntry(S_python_developer, S_jan_2019, S_june_2020, 0, TRUE),
      TimelineEntry(S_python_developer, S_03_2020, S_2021_01_01, 0, TRUE),
      TimelineEntry(<< >>, S_2021, S_present, 0, FALSE),
      TimelineEntry(S_chef, S_2019_06_15, S_15_jan_2020, 0, FALSE),
      TimelineEntry(S_python_developer, S_2021, S_jan_2019, 0, TRUE),
      TimelineEntry(S_python_developer, S_2019_01, S_2020_06, 150, TRUE),
      TimelineEntry(S_chef, S_2020_03, S_2021_01, 0, FALSE),
      TimelineEntry(S_python_developer, S_2021_01, S_2020_06, 0, TRUE) }

\* The non-empty experience lists of up to MaxEntries entries.
TimelineLists == SeqsUpTo(TimelineUniverse, MaxEntries) \ { << >> }

TimelineInit ==
    /\ timeline_list \in TimelineLists
    /\ \E asked \in { << << >>, TRUE >>, << S_python_developer, TRUE >>,
                       << S_python_developer, FALSE >> } :
           timeline_title = asked[1] /\ timeline_model = asked[2]
    /\ timeline_years = -1
    /\ total_experience = -1

\* _calculate_experience_from_timeline(timeline_list, timeline_title)
CalculateTimeline ==
    /\ timeline_years = -1
    /\ timeline_years' =
           calculate_experience_from_timeline(timeline_list, timeline_title, timeline_model)
    /\ UNCHANGED << timeline_list, timeline_title, timeline_model, total_experience >>
    /\ UNCHANGED notTimeline

\* calculate_total_experience(exp_list)
CalculateTotalExperience ==
    /\ timeline_years # -1
    /\ total_experience = -1
    /\ total_experience' = calculate_total_experience(YearMonthEntries(timeline_list))
    /\ UNCHANGED << timeline_list, timeline_title, timeline_model, timeline_years >>
    /\ UNCHANGED notTimeline

TimelineNext ==
    \/ CalculateTimeline
    \/ CalculateTotalExperience

TimelineStart ==
    OracleIdle /\ MatcherIdle /\ ExperienceIdle /\ LocalIdle /\ TimelineInit /\ SemanticIdle
    /\ WeightIdle /\ RegistryIdle /\ EvaluatorIdle /\ JobIdle /\ BucketIdle
SpecTimeline == TimelineStart /\ [][TimelineNext]_vars

TimelineDone == total_experience # -1

\* the surviving intervals of the two calculators for a list of entries
SurvivingDays(list) == Intervals(ValidEntries(list, timeline_title, timeline_model))
SurvivingMonths(list) ==
    LET dated == SelectSeq(YearMonthEntries(list), LAMBDA e :
                     /\ e.start_date.ok /\ e.end_date.ok
                     /\ MonthIndex(e.start_date) <= MonthIndex(e.end_date))
    IN  [i \in 1..Len(dated) |->
            << MonthIndex(dated[i].start_date), MonthIndex(dated[i].end_date) >>]

RECURSIVE MinOver(_)
MinOver(q) ==
    IF Len(q) = 1 THEN q[1] ELSE Min2(q[1], MinOver(Tail(q)))

\* the whole units [u, u + 1) that lie inside one of the intervals, the
\* ends of an interval being given in units of 1/scale
UnionLength(intervals, scale) ==
    LET lo == MinOver([i \in 1..Len(intervals) |-> intervals[i][1]]) \div scale
        hi == MaxOver([i \in 1..Len(intervals) |-> intervals[i][2]]) \div scale
    IN  Cardinality({ u \in lo..hi : \E i \in 1..Len(intervals) :
                        intervals[i][1] <= scale * u /\ scale * (u + 1) <= intervals[i][2] })
SumLengths(intervals, scale) ==
    SumOver([i \in 1..Len(intervals) |-> (intervals[i][2] - intervals[i][1]) \div scale],
            1..Len(intervals))
LongestLength(intervals, scale) ==
    MaxOver([i \in 1..Len(intervals) |-> (intervals[i][2] - intervals[i][1]) \div scale])
YearsOfMonths(months) == PyRound(100 * months, 12)

\* C11: when an interval survives, each calculator returns the length of
\* the union of the surviving intervals (in years, rounded to 2 decimals),
\* returns the same for every ordering of the entries, and returns at most
\* the sum of the single durations and at least the longest of them.
C11_IntervalMerge ==
    TimelineDone =>
        /\ LET days == SurvivingDays(timeline_list)
           IN  Len(days) > 0 =>
                 /\ timeline_years = YearsOfDays(UnionLength(days, 2))
                 /\ \A q \in Orderings(timeline_list) :
                        calculate_experience_from_timeline(q, timeline_title, timeline_model)
                            = timeline_years
                 /\ timeline_years <= YearsOfDays(SumLengths(days, 2))
                 /\ timeline_years >= YearsOfDays(LongestLength(days, 2))
        /\ LET months == SurvivingMonths(timeline_list)
           IN  Len(months) > 0 =>
                 /\ total_experience = YearsOfMonths(UnionLength(months, 1))
                 /\ \A q \in Orderings(timeline_list) :
                        calculate_total_experience(YearMonthEntries(q)) = total_experience
                 /\ total_experience <= YearsOfMonths(SumLengths(months, 1))
                 /\ total_experience >= YearsOfMonths(LongestLength(months, 1))

\* Two overlapping entries survive in each calculator and the total is
\* below the sum of their durations.
C11_Witness ==
    /\ TimelineDone
    /\ Len(SurvivingDays(timeline_list)) >= 2
    /\ timeline_years > 0
    /\ timeline_years < YearsOfDays(SumLengths(SurvivingDays(timeline_list), 2))

\* ------------------------------------------------------------------------
\* The shared semantic model (matcher.get_semantic_model) called from
\* several scoring threads
\* ------------------------------------------------------------------------
MaxThreads == 2
MaxCalls == 2

Threads == 1..MaxThreads

\* _SEMANTIC_MODEL is None, or the instance a constructor call returned
\* (instances are numbered in the order they are constructed)
NoModel == 0

SemanticInit ==
    /\ SEMANTIC_MODEL = NoModel
    /\ sm_pc = [t \in Threads |-> "idle"]
    /\ sm_built = [t \in Threads |-> NoModel]
    /\ sm_returned = [t \in Threads |-> << >>]
    /\ sm_instances = 0

\* a scoring thread calls get_semantic_model()
CallGetSemanticModel(t) ==
    /\ sm_pc[t] = "idle"
    /\ Len(sm_returned[t]) < MaxCalls
    /\ sm_pc' = [sm_pc EXCEPT ![t] = "test"]
    /\ UNCHANGED << SEMANTIC_MODEL, sm_built, sm_returned, sm_instances >>
    /\ UNCHANGED notSemantic

\* if _SEMANTIC_MODEL is None:
TestModel(t) ==
    /\ sm_pc[t] = "test"
    /\ sm_pc' = [sm_pc EXCEPT ![t] = IF SEMANTIC_MODEL = NoModel THEN "load" ELSE "return"]
    /\ UNCHANGED << SEMANTIC_MODEL, sm_built, sm_returned, sm_instances >>
    /\ UNCHANGED notSemantic

\* the import and SentenceTransformer("all-MiniLM-L6-v2") succeed: a new
\* instance, not yet assigned
ConstructModel(t) ==
    /\ sm_pc[t] = "load"
    /\ sm_instances' = sm_instances + 1
    /\ sm_built' = [sm_built EXCEPT ![t] = sm_instances + 1]
    /\ sm_pc' = [sm_pc EXCEPT ![t] = "assign"]
    /\ UNCHANGED << SEMANTIC_MODEL, sm_returned >>
    /\ UNCHANGED notSemantic

\* the import or the constructor raises: the except clauses return None
ConstructFails(t) ==
    /\ sm_pc[t] = "load"
    /\ sm_returned' = [sm_returned EXCEPT ![t] = Append(@, NoModel)]
    /\ sm_pc' = [sm_pc EXCEPT ![t] = "idle"]
    /\ UNCHANGED << SEMANTIC_MODEL, sm_built, sm_instances >>
    /\ UNCHANGED notSemantic

\* _SEMANTIC_MODEL = <the new instance>
AssignModel(t) ==
    /\ sm_pc[t] = "assign"
    /\ SEMANTIC_MODEL' = sm_built[t]
    /\ sm_pc' = [sm_pc EXCEPT ![t] = "return"]
    /\ UNCHANGED << sm_built, sm_returned, sm_instances >>
    /\ UNCHANGED notSemantic

\* return _SEMANTIC_MODEL
ReturnModel(t) ==
    /\ sm_pc[t] = "return"
    /\ sm_returned' = [sm_returned EXCEPT ![t] = Append(@, SEMANTIC_MODEL)]
    /\ sm_pc' = [sm_pc EXCEPT ![t] = "idle"]
    /\ UNCHANGED << SEMANTIC_MODEL, sm_built, sm_instances >>
    /\ UNCHANGED notSemantic

SemanticNext ==
    \E t \in Threads :
        \/ CallGetSemanticModel(t)
        \/ TestModel(t)
        \/ ConstructModel(t)
        \/ ConstructFails(t)
        \/ AssignModel(t)
        \/ ReturnModel(t)

SemanticStart ==
    OracleIdle /\ MatcherIdle /\ ExperienceIdle /\ LocalIdle /\ TimelineIdle /\ SemanticInit
    /\ WeightIdle /\ RegistryIdle /\ EvaluatorIdle /\ JobIdle /\ BucketIdle
SpecSemantic == SemanticStart /\ [][SemanticNext]_vars

\* the models callers were given
ModelsReturned ==
    UNION { Range(sm_returned[t]) : t \in Threads } \ { NoModel }

\* C12: the model constructor completes at most once, and every caller
\* that gets a model gets the same instance.
C12_ModelCreatedOnce ==
    /\ sm_instances <= 1
    /\ Cardinality(ModelsReturned) <= 1

\* int(round(100 * matched / count)) of the phrase matcher alone
PhraseScore(source_texts, jd_targets) ==
    IF Len(jd_targets) = 0 THEN 0
    ELSE Ratio(Len(extract_matches(source_texts, jd_targets).matched), Len(jd_targets))

\* the hybrid categories with the targets each one looks for (the
\* certificates in an empty list of certificate names, the others in the
\* text corpus)
PhraseScores ==
    [skills_score |-> PhraseScore(text_corpus, local_jd.skills),
     technologies_score |-> PhraseScore(text_corpus, local_jd.technologies),
     tools_score |-> PhraseScore(text_corpus, local_jd.tools),
     projects_score |->
         PhraseScore(text_corpus, extract_project_keywords_from_jd(local_jd.projects)),
     certificates_score |-> PhraseScore(<< >>, local_jd.certificates),
     responsibilities_score |-> PhraseScore(text_corpus, local_jd.responsibilities)]

C14_ScoringCompletes ==
    /\ lpc # "raised"
    /\ LocalDone => /\ DOMAIN local_out.scores = Categories
                    /\ local_out.final_score \in Int


\* ---------------------------------------------------------------------
\* The weights of the JD scoring block (jd_validator.validate_jd)
\* ---------------------------------------------------------------------

REQUIRED_SCORING_FIELDS ==
    { "skills", "experience", "relevant_experience", "projects", "certificates",
      "tools", "technologies", "qualification", "responsibilities", "salary" }

\* validate_weights_sum: default, the table for weights that are all 0
default_weights ==
    [k \in REQUIRED_SCORING_FIELDS |->
        CASE k = "skills" -> 30
          [] k = "experience" -> 25
          [] k \in { "relevant_experience", "projects" } -> 10
          [] k \in { "certificates", "tools", "technologies", "qualification" } -> 5
          [] k = "responsibilities" -> 3
          [] k = "salary" -> 2]

\* jd_normalizer.validate_scoring_block(block)["weight"]: the weight as it
\* is given, 0 for a block without one.
validate_scoring_block(block) == IF block.k = "absent" THEN RawNum(0) ELSE block

\* ensure_scoring_block(block)["weight"]: int(weight), which truncates a
\* float, and 0 when int() raises.  A number is held in tenths.
ensure_scoring_block(block) == IF block.k = "num" THEN block.v \div 10 ELSE 0

\* validate_scoring_structure(scoring), a missing section standing as Absent
validate_scoring_structure(scoring) ==
    [field \in REQUIRED_SCORING_FIELDS |->
        ensure_scoring_block(validate_scoring_block(scoring[field]))]

\* validate_weights_sum(scoring)
validate_weights_sum(scoring) ==
    LET total == SumOver(scoring, REQUIRED_SCORING_FIELDS)
    IN  IF total = 100 THEN scoring
        ELSE IF total = 0 THEN default_weights
        ELSE [k \in REQUIRED_SCORING_FIELDS |-> PyRound(100 * scoring[k], total)]

\* the weights a JD gives: absent, not a number, 0, 1, 2.5, 30, 70
GivenWeights ==
    { Absent, TextValue, RawNum(0), RawNum(10), RawNum(25), RawNum(300), RawNum(700) }

\* the sections of the scoring block that the enumerated JDs may hold
GivenSections == { "skills", "experience", "projects", "salary" }

WeightInit ==
    /\ jd_scoring \in { [k \in REQUIRED_SCORING_FIELDS |->
                            IF k \in GivenSections THEN given[k] ELSE Absent] :
                        given \in [GivenSections -> GivenWeights] }
    /\ scoring_out = << >>

\* validate_jd(jd_raw): validate_scoring_structure, scale_all_criteria (which
\* leaves the weights alone), validate_weights_sum.
ValidateJd ==
    /\ scoring_out = << >>
    /\ scoring_out' = validate_weights_sum(validate_scoring_structure(jd_scoring))
    /\ UNCHANGED jd_scoring
    /\ UNCHANGED notWeight

WeightNext == ValidateJd

WeightStart ==
    OracleIdle /\ MatcherIdle /\ ExperienceIdle /\ LocalIdle /\ TimelineIdle /\ SemanticIdle
    /\ WeightInit /\ RegistryIdle /\ EvaluatorIdle /\ JobIdle /\ BucketIdle
SpecWeights == WeightStart /\ [][WeightNext]_vars

\* C15: after validate_jd the ten weights sum to exactly 100: they are the
\* given ones when those sum to 100, the default table when they sum to 0,
\* and the given ones normalised in proportion otherwise.
C15_WeightsSumTo100 ==
    scoring_out # << >> =>
        LET given == validate_scoring_structure(jd_scoring)
            total == SumOver(given, REQUIRED_SCORING_FIELDS)
        IN  /\ SumOver(scoring_out, REQUIRED_SCORING_FIELDS) = 100
            /\ total = 100 => scoring_out = given
            /\ total = 0 => scoring_out = default_weights


\* ---------------------------------------------------------------------
\* C16: guardrails only force scores down.
\* ---------------------------------------------------------------------

\* the positions of apply_guardrails at which a rule is applied
GuardrailPositions == { "skills", "experience", "projects", "certifications", "generic" }

\* one step of the chain leaves no category score higher than it found it
GuardrailLowers ==
    pc \in GuardrailPositions =>
        \A c \in Categories :
           (IsInt(MapGet(out, c)) /\ IsInt(MapGet(out', c)))
              => (MapGet(out', c).v <= MapGet(out, c).v)
\* C16: no rule of the chain, built-in or generic (cap, multiply, set),
\* leaves a category score higher than it found it.
C16_GuardrailsOnlyLower == [][GuardrailLowers]_vars


\* ---------------------------------------------------------------------
\* The guardrail chain alone (apply_guardrails on a clamped score map)
\* ---------------------------------------------------------------------

\* validate_ai_score_output with a guardrail context, the default weights
\* and an oracle output whose skills_score is 100 or not a number.
ChainInit ==
    /\ pc = "start"
    /\ raw_obj \in { RawObject(RawNum(405), Absent, s, 0) : s \in { TextValue, RawNum(1000) } }
    /\ weights = ScoringWeights(NoWeightsGiven)
    /\ has_context = TRUE
    /\ resume \in ResumeChoices
    /\ rules \in RuleSets
    /\ out = << >>
    /\ notes = EmptyNotes
    /\ all_notes = << >>
    /\ idx = 0

ChainStart ==
    ChainInit /\ MatcherIdle /\ ExperienceIdle /\ LocalIdle /\ TimelineIdle /\ SemanticIdle
    /\ WeightIdle /\ RegistryIdle /\ EvaluatorIdle /\ JobIdle /\ BucketIdle
SpecChain == ChainStart /\ [][Next]_vars

\* how many rules of the chain have been applied at this position
RulesApplied ==
    CASE pc = "skills" -> 0
      [] pc = "experience" -> 1
      [] pc = "projects" -> 2
      [] pc = "certifications" -> 3
      [] pc = "generic" -> 3 + idx
      [] OTHER -> 4 + Len(rules.items)

\* the score map after the first n rules of the list of ACTIVE_GUARDRAILS
\* followed by the entries of the rule set, each applied to the map the
\* rule before it returned
RECURSIVE InListOrder(_, _)
InListOrder(score_map, n) ==
    IF n = 0 THEN score_map
    ELSE LET before == InListOrder(score_map, n - 1)
         IN  CASE n = 1 -> SkillsEvidenceRule(before, resume).map
               [] n = 2 -> ExperienceEvidenceRule(before, resume).map
               [] n = 3 -> ProjectsEvidenceRule(before, resume).map
               [] n = 4 -> CertificationsEvidenceRule(before, resume).map
               [] OTHER -> GenericRuleStep(rules.items[n - 4], before, resume).map

\* C20: the rules apply in list order, the four built-in rules before
\* every generic rule and the generic rules in rule-set order, each to the
\* score map the rules before it left; the first generic rule of a resume
\* without skills finds skills_score already 0.
C20_RulesInListOrder ==
    (pc \in GuardrailPositions \cup { "final" }) =>
        /\ out = InListOrder(Coerce(raw_obj), RulesApplied)
        /\ (pc = "generic" /\ idx = 1 /\ Len(resume.skills) = 0)
              => MapGet(out, "skills_score") = IntV(0)

\* Two generic rules on the same target: an intern's experience_score of
\* 40 is halved to 20 by the first and to 10 by the second.
C20_Witness ==
    /\ pc = "final"
    /\ rules.items = << RuleIntern, RuleIntern >>
    /\ Coerce(raw_obj)["experience_score"] = IntV(40)
    /\ out["experience_score"] = IntV(10)


\* ---------------------------------------------------------------------
\* The prompt registry (prompt_registry.PromptRegistryAuthority)
\* ---------------------------------------------------------------------
\* One authority over one registry file.  created_at and created_by are
\* left out of the records: no operation reads them.

V_1_0_0 == << "1", ".", "0", ".", "0" >>
V_2_0_0 == << "2", ".", "0", ".", "0" >>
V_1_0 == << "1", ".", "0" >>

\* Field(pattern=r"^\d+\.\d+\.\d+$")
IsSemver(v) ==
    LET a == RunEnd(v, 1, Digits)
        b == RunEnd(v, a + 1, Digits)
        c == RunEnd(v, b + 1, Digits)
    IN  /\ a > 1 /\ a <= Len(v) /\ v[a] = "."
        /\ b > a + 1 /\ b <= Len(v) /\ v[b] = "."
        /\ c > b + 1 /\ c = Len(v) + 1

PROMPT_TYPES == { "resume_parsing", "draft_reasoning", "explanation_generation" }

\* Compatibility(score_schema_versions, evidence_schema_versions,
\* guardrail_schema_versions)
Compatibility(score, evidence, guardrail) ==
    [score_schema_versions |-> score, evidence_schema_versions |-> evidence,
     guardrail_schema_versions |-> guardrail]

\* _calculate_checksum(text): "sha256:" and the digest, a digest standing
\* for the text it was computed from
calculate_checksum(text) == << "sha256:", text >>

\* FailureResponse(...).model_dump(); a message is the list of the parts
\* it is formatted from
FailureResponse(error_type, message, id, version) ==
    [error_type |-> error_type, message |-> message,
     prompt_id |-> id, prompt_version |-> version]

\* _get_record(prompt_id, prompt_version): the position of the first record
\* of that id and version, 0 for None
get_record(recs, id, version) ==
    LET hits == { i \in 1..Len(recs) :
                     recs[i].prompt_id = id /\ recs[i].prompt_version = version }
    IN  IF hits = {} THEN 0 ELSE Least(hits)

\* out = record.model_dump(); del out['prompt_text']
WithoutText(record) == [k \in DOMAIN record \ { "prompt_text" } |-> record[k]]

\* what a call returned, with the call it answers
Returned(call, value) == [call |-> call, value |-> value]

\* the arguments the calls are made with: two texts, three pairs that can
\* be registered and one that never is, a version that is no semantic
\* version, a type that is no prompt type, an empty compatibility list,
\* and active schemas of which at most one is not listed
PromptTexts == { "V1", "V2" }
PromptPairs == { << "test_parser", V_1_0_0 >>, << "test_parser", V_2_0_0 >>,
                 << "foo", V_1_0_0 >> }
AskedPairs == PromptPairs \cup { << "foo", V_2_0_0 >> }
PromptVersions == { V_1_0_0, V_2_0_0 }
ListedSchemas == Compatibility(<< V_1_0_0 >>, << V_1_0_0 >>, << V_1_0_0 >>)
Registrations ==
    { << text, pair[1], pair[2], "resume_parsing", ListedSchemas >> :
         text \in PromptTexts, pair \in PromptPairs }
    \cup { << "V1", "test_parser", V_1_0, "resume_parsing", ListedSchemas >>,
           << "V1", "test_parser", V_1_0_0, "invalid_type", ListedSchemas >>,
           << "V1", "test_parser", V_1_0_0, "resume_parsing",
              Compatibility(<< V_1_0_0 >>, << >>, << V_1_0_0 >>) >> }
ActiveSchemas ==
    { << V_1_0_0, V_1_0_0, V_1_0_0 >>, << V_2_0_0, V_1_0_0, V_1_0_0 >>,
      << V_1_0_0, V_2_0_0, V_1_0_0 >>, << V_1_0_0, V_1_0_0, V_2_0_0 >> }

RegistryInit ==
    /\ records = << >>
    /\ storage = << >>
    /\ response = << >>

\* A register_prompt that appends without looking for the pair.
register_prompt_unchecked(text, id, version, type, compatibility) ==
    LET new_record ==
            [prompt_id |-> id, prompt_version |-> version,
             schema_version |-> V_1_0_0, prompt_type |-> type,
             status |-> "active", checksum |-> calculate_checksum(text),
             compatibility |-> compatibility,
             deprecation |-> [deprecated |-> FALSE, replaced_by |-> << >>],
             prompt_text |-> text]
        call == << "register_prompt", text, id, version, type, compatibility >>
    IN  /\ records' = Append(records, new_record)
        /\ storage' = records'
        /\ response' = Returned(call, WithoutText(new_record))
        /\ UNCHANGED notRegistry

\* register_prompt(prompt_text, prompt_id, prompt_version, prompt_type,
\* compatibility), schema_version left at its default
register_prompt(text, id, version, type, compatibility) ==
    LET existing == get_record(records, id, version)
        explicit == /\ Len(compatibility.score_schema_versions) > 0
                    /\ Len(compatibility.evidence_schema_versions) > 0
                    /\ Len(compatibility.guardrail_schema_versions) > 0
        valid == IsSemver(version) /\ type \in PROMPT_TYPES
        new_record ==
            [prompt_id |-> id, prompt_version |-> version,
             schema_version |-> V_1_0_0, prompt_type |-> type,
             status |-> "active", checksum |-> calculate_checksum(text),
             compatibility |-> compatibility,
             deprecation |-> [deprecated |-> FALSE, replaced_by |-> << >>],
             prompt_text |-> text]
        call == << "register_prompt", text, id, version, type, compatibility >>
    IN  /\ IF existing # 0
           THEN /\ response' = Returned(call,
                       FailureResponse("IMMUTABILITY_VIOLATION",
                           << "Prompt version already exists. Mutation forbidden." >>,
                           id, version))
                /\ UNCHANGED << records, storage >>
           ELSE IF ~explicit
           THEN /\ response' = Returned(call,
                       FailureResponse("VALIDATION_ERROR",
                           << "Compatibility lists MUST be explicit and non-empty." >>,
                           id, version))
                /\ UNCHANGED << records, storage >>
           ELSE IF ~valid
           THEN /\ response' = Returned(call,
                       FailureResponse("VALIDATION_ERROR",
                           << "Schema validation failed: ", "ValidationError" >>,
                           id, version))
                /\ UNCHANGED << records, storage >>
           ELSE /\ records' = Append(records, new_record)
                /\ storage' = records'
                /\ response' = Returned(call, WithoutText(new_record))
        /\ UNCHANGED notRegistry

\* A resolve_prompt without the status check.
resolve_prompt_any_status(id, version, active_score_schema, active_evidence_schema, active_guardrail_schema) ==
    LET found == get_record(records, id, version)
        record == records[found]
        call == << "resolve_prompt", id, version, active_score_schema,
                   active_evidence_schema, active_guardrail_schema >>
    IN  /\ response' = Returned(call,
              IF found = 0
              THEN FailureResponse("NOT_FOUND", << "Prompt not found." >>, id, version)
              ELSE [prompt_text |-> record.prompt_text,
                    schema_version |-> record.schema_version,
                    checksum |-> record.checksum])
        /\ UNCHANGED << records, storage >>
        /\ UNCHANGED notRegistry

\* A resolve_prompt that does not compare the guardrail schema.
resolve_prompt_two_schemas(id, version, active_score_schema, active_evidence_schema, active_guardrail_schema) ==
    LET found == get_record(records, id, version)
        record == records[found]
        call == << "resolve_prompt", id, version, active_score_schema,
                   active_evidence_schema, active_guardrail_schema >>
        Incompatible(message, active) ==
            FailureResponse("COMPATIBILITY_ERROR", << message, active >>, id, version)
    IN  /\ response' = Returned(call,
              IF found = 0
              THEN FailureResponse("NOT_FOUND", << "Prompt not found." >>, id, version)
              ELSE IF record.status # "active"
              THEN FailureResponse("COMPATIBILITY_ERROR",
                                   << "Prompt is ", record.status, "." >>, id, version)
              ELSE IF active_score_schema
                         \notin Range(record.compatibility.score_schema_versions)
              THEN Incompatible("Incompatible score schema: ", active_score_schema)
              ELSE IF active_evidence_schema
                         \notin Range(record.compatibility.evidence_schema_versions)
              THEN Incompatible("Incompatible evidence schema: ", active_evidence_schema)
              ELSE [prompt_text |-> record.prompt_text,
                    schema_version |-> record.schema_version,
                    checksum |-> record.checksum])
        /\ UNCHANGED << records, storage >>
        /\ UNCHANGED notRegistry

\* resolve_prompt(prompt_id, prompt_version, active_score_schema,
\* active_evidence_schema, active_guardrail_schema)
resolve_prompt(id, version, active_score_schema, active_evidence_schema, active_guardrail_schema) ==
    LET found == get_record(records, id, version)
        record == records[found]
        call == << "resolve_prompt", id, version, active_score_schema,
                   active_evidence_schema, active_guardrail_schema >>
        Incompatible(message, active) ==
            FailureResponse("COMPATIBILITY_ERROR", << message, active >>, id, version)
    IN  /\ response' = Returned(call,
              IF found = 0
              THEN FailureResponse("NOT_FOUND", << "Prompt not found." >>, id, version)
              ELSE IF record.status # "active"
              THEN FailureResponse("COMPATIBILITY_ERROR",
                                   << "Prompt is ", record.status, "." >>, id, version)
              ELSE IF active_score_schema
                         \notin Range(record.compatibility.score_schema_versions)
              THEN Incompatible("Incompatible score schema: ", active_score_schema)
              ELSE IF active_evidence_schema
                         \notin Range(record.compatibility.evidence_schema_versions)
              THEN Incompatible("Incompatible evidence schema: ", active_evidence_schema)
              ELSE IF active_guardrail_schema
                         \notin Range(record.compatibility.guardrail_schema_versions)
              THEN Incompatible("Incompatible guardrail schema: ", active_guardrail_schema)
              ELSE [prompt_text |-> record.prompt_text,
                    schema_version |-> record.schema_version,
                    checksum |-> record.checksum])
        /\ UNCHANGED << records, storage >>
        /\ UNCHANGED notRegistry

\* deprecate_prompt(prompt_id, prompt_version, replaced_by)
deprecate_prompt(id, version, replaced_by) ==
    LET found == get_record(records, id, version)
        replacement == get_record(records, id, replaced_by)
        updated == [records[found] EXCEPT
                       !.status = "deprecated",
                       !.deprecation = [deprecated |-> TRUE, replaced_by |-> replaced_by]]
        call == << "deprecate_prompt", id, version, replaced_by >>
    IN  /\ IF found = 0
           THEN /\ response' = Returned(call,
                       FailureResponse("NOT_FOUND", << "Prompt not found." >>, id, version))
                /\ UNCHANGED << records, storage >>
           ELSE IF replacement = 0
           THEN /\ response' = Returned(call,
                       FailureResponse("VALIDATION_ERROR",
                                       << "Replacement version not found." >>, id, version))
                /\ UNCHANGED << records, storage >>
           ELSE /\ records' = [records EXCEPT ![found] = updated]
                /\ storage' = records'
                /\ response' = Returned(call, WithoutText(updated))
        /\ UNCHANGED notRegistry

\* PromptRegistryAuthority(storage_path) constructed anew: _load_registry
\* reads the records of the file.
LoadRegistry ==
    /\ records' = storage
    /\ UNCHANGED << storage, response >>
    /\ UNCHANGED notRegistry

RegistryNext ==
    \/ \E r \in Registrations : register_prompt(r[1], r[2], r[3], r[4], r[5])
    \/ \E pair \in AskedPairs, active \in ActiveSchemas :
          resolve_prompt(pair[1], pair[2], active[1], active[2], active[3])
    \/ \E pair \in AskedPairs, replaced_by \in PromptVersions :
          deprecate_prompt(pair[1], pair[2], replaced_by)
    \/ LoadRegistry

RegistryStart ==
    OracleIdle /\ MatcherIdle /\ ExperienceIdle /\ LocalIdle /\ TimelineIdle /\ SemanticIdle
    /\ WeightIdle /\ RegistryInit /\ EvaluatorIdle /\ JobIdle /\ BucketIdle
SpecRegistry == RegistryStart /\ [][RegistryNext]_vars


\* the step changes the state and answers a call of the operation called
\* name
Called(name) ==
    /\ registryVars' # registryVars
    /\ response' # << >>
    /\ response'.call[1] = name

\* result.get("error_type")
ErrorType(result) ==
    IF "error_type" \in DOMAIN result THEN result.error_type ELSE "None"

\* the key of a record
Pair(record) == << record.prompt_id, record.prompt_version >>

OnePerPair(recs) ==
    \A i, j \in 1..Len(recs) : i # j => Pair(recs[i]) # Pair(recs[j])

\* one step of the registry keeps every record's key, text and checksum,
\* keeps the keys apart, and refuses to register a key that is there
RegistryImmutable ==
    /\ OnePerPair(records') /\ OnePerPair(storage')
    /\ \A i \in 1..Len(records) :
          /\ i <= Len(records')
          /\ Pair(records'[i]) = Pair(records[i])
          /\ records'[i].prompt_text = records[i].prompt_text
          /\ records'[i].checksum = records[i].checksum
    /\ (Called("register_prompt")
          /\ get_record(records, response'.call[3], response'.call[4]) # 0)
       => /\ "error_type" \in DOMAIN response'.value
          /\ response'.value.error_type = "IMMUTABILITY_VIOLATION"
          /\ records' = records
          /\ storage' = storage

\* C17: the registry holds at most one record per (prompt_id,
\* prompt_version), no operation changes a record's text or checksum, and
\* register_prompt for a pair that is there returns IMMUTABILITY_VIOLATION
\* and leaves the records as they are.
C17_RegistryImmutable == [][RegistryImmutable]_vars

\* A second registration of a pair, with another text, was refused.
C17_Witness ==
    /\ response # << >>
    /\ response.call[1] = "register_prompt"
    /\ "error_type" \in DOMAIN response.value
    /\ response.value.error_type = "IMMUTABILITY_VIOLATION"
    /\ records[get_record(records, response.call[3], response.call[4])].prompt_text
          # response.call[2]

\* one step of the registry leaves a deprecated record deprecated, a
\* successful deprecate_prompt leaves its record deprecated, and
\* resolve_prompt of a deprecated record fails
DeprecationPermanent ==
    /\ \A i \in 1..Len(records) :
          records[i].status = "deprecated" =>
             /\ i <= Len(records')
             /\ Pair(records'[i]) = Pair(records[i])
             /\ records'[i].status = "deprecated"
    /\ (Called("deprecate_prompt") /\ "status" \in DOMAIN response'.value)
       => LET at == get_record(records', response'.call[2], response'.call[3])
          IN  at # 0 /\ records'[at].status = "deprecated"
    /\ Called("resolve_prompt")
       => LET at == get_record(records, response'.call[2], response'.call[3])
          IN  (at # 0 /\ records[at].status = "deprecated")
                 => response'.value =
                       FailureResponse("COMPATIBILITY_ERROR",
                                       << "Prompt is ", "deprecated", "." >>,
                                       response'.call[2], response'.call[3])

\* C18: once deprecate_prompt has succeeded for a record, every later
\* resolve_prompt of it fails with COMPATIBILITY_ERROR and the message
\* "Prompt is deprecated.", and no operation makes the record active again.
C18_DeprecationPermanent == [][DeprecationPermanent]_vars

\* A deprecated record was asked for with the schemas it is compatible with.
C18_Witness ==
    /\ response # << >>
    /\ response.call = << "resolve_prompt", "test_parser", V_1_0_0,
                          V_1_0_0, V_1_0_0, V_1_0_0 >>
    /\ get_record(records, "test_parser", V_1_0_0) # 0
    /\ records[get_record(records, "test_parser", V_1_0_0)].deprecation.replaced_by = V_2_0_0
    /\ ErrorType(response.value) = "COMPATIBILITY_ERROR"

\* one resolve_prompt
ResolveContract ==
    Called("resolve_prompt")
    => LET at == get_record(records, response'.call[2], response'.call[3])
           returned == response'.value
           active == IF at = 0 THEN FALSE ELSE records[at].status = "active"
           compatible ==
               IF at = 0 THEN FALSE
               ELSE /\ response'.call[4]
                          \in Range(records[at].compatibility.score_schema_versions)
                    /\ response'.call[5]
                          \in Range(records[at].compatibility.evidence_schema_versions)
                    /\ response'.call[6]
                          \in Range(records[at].compatibility.guardrail_schema_versions)
       IN  /\ records' = records
           /\ storage' = storage
           /\ ("prompt_text" \in DOMAIN returned) <=> (active /\ compatible)
           /\ ("prompt_text" \in DOMAIN returned)
                 => returned.prompt_text = records[at].prompt_text
           /\ at = 0 => ErrorType(returned) = "NOT_FOUND"
           /\ (active /\ ~compatible) => ErrorType(returned) = "COMPATIBILITY_ERROR"

\* C19: resolve_prompt returns the prompt text only for a record that is
\* there, is active and lists each of the three active schema versions; an
\* unknown prompt gives NOT_FOUND, a schema that is not listed gives
\* COMPATIBILITY_ERROR, and the registry is left as it was.
C19_ResolveContract == [][ResolveContract]_vars

\* The text of an active record was returned.
C19_Witness ==
    /\ response # << >>
    /\ response.call[1] = "resolve_prompt"
    /\ "prompt_text" \in DOMAIN response.value
    /\ response.value.prompt_text
          = records[get_record(records, response.call[2], response.call[3])].prompt_text


\* ---------------------------------------------------------------------
\* The two evaluators of an evidence rule: ai_scorer._evaluate_rules, which
\* announces the triggered rules to the oracle, and
\* GenericEvidenceRule._evaluate_condition, which enforces them
\* ---------------------------------------------------------------------

\* pieces of str(item) for an experience entry
T_repr_role == << "{", "'", "r", "o", "l", "e", "'", ":", " ", "'" >>
T_repr_start_date == << "'", ",", " ", "'", "s", "t", "a", "r", "t", "_", "d", "a", "t", "e", "'", ":", " " >>
T_repr_end_date == << ",", " ", "'", "e", "n", "d", "_", "d", "a", "t", "e", "'", ":", " " >>
T_repr_description == << ",", " ", "'", "d", "e", "s", "c", "r", "i", "p", "t", "i", "o", "n", "'", ":", " ", "'" >>
T_repr_close == << "}" >>
T_None == << "N", "o", "n", "e" >>
T_mentored_an_intern == << "M", "e", "n", "t", "o", "r", "e", "d", " ", "a", "n", " ", "i", "n", "t", "e", "r", "n" >>

\* an experience entry that also carries a description
JobDescribed(role, start_date, end_date, description) ==
    [role |-> role, start_date |-> start_date, end_date |-> end_date,
     description |-> description]

NullSummary == [k |-> "null", v |-> << >>]

DigitChar(d) == << "0", "1", "2", "3", "4", "5", "6", "7", "8", "9" >>[d + 1]

\* repr of a date value: 'YYYY-MM', or None
DateRepr(date) ==
    IF ~date.ok THEN T_None
    ELSE << "'", DigitChar(date.y \div 1000), DigitChar((date.y \div 100) % 10),
            DigitChar((date.y \div 10) % 10), DigitChar(date.y % 10), "-",
            DigitChar(date.m \div 10), DigitChar(date.m % 10), "'" >>

\* str(item) of an experience dict
ItemRepr(item) ==
    T_repr_role \o item.role \o T_repr_start_date \o DateRepr(item.start_date)
      \o T_repr_end_date \o DateRepr(item.end_date)
      \o (IF "description" \in DOMAIN item
          THEN T_repr_description \o item.description \o << "'" >> ELSE << >>)
      \o T_repr_close

\* ai_scorer._get_nested_val on {"resume": resume.model_dump()}: a list,
\* a string, or None (a missing key, a null, a path that leads nowhere)
get_nested_val(resume_json, path) ==
    IF path = "resume.skills" THEN [k |-> "list", v |-> resume_json.skills]
    ELSE IF path = "resume.experience" THEN [k |-> "list", v |-> resume_json.experience]
    ELSE IF path = "resume.projects" THEN [k |-> "list", v |-> resume_json.projects]
    ELSE IF path = "resume.certifications"
         THEN [k |-> "list", v |-> resume_json.certifications]
    ELSE IF path = "resume.summary" /\ resume_json.summary.k = "str"
         THEN [k |-> "str", v |-> resume_json.summary.v]
    ELSE [k |-> "none", v |-> << >>]

\* ai_scorer._evaluate_rules for one rule: is_triggered.  An exception in
\* the body is caught there and the rule is passed over.
is_triggered(rule, resume_json) ==
    LET cond == rule.condition
        operator == cond.operator
        val == get_nested_val(resume_json, cond.field)
        dicts == cond.field = "resume.experience"
        list == IF val.k = "list" THEN val.v ELSE << >>
        count == Cardinality({ i \in 1..Len(list) :
                     Contains(Lower(IF dicts THEN ItemRepr(list[i]) ELSE list[i]),
                              Lower(cond.keyword.v)) })
        valid_items == { i \in 1..Len(list) :
                           calculate_duration(list[i].start_date, list[i].end_date) > 0 }
        total_dur == SumOver([i \in 1..Len(list) |->
                        calculate_duration(list[i].start_date, list[i].end_date) * 12],
                        valid_items)
    IN  IF operator = "contains_keyword_ratio"
        THEN /\ Len(list) > 0
             /\ cond.keyword.k = "str"
             /\ cond.threshold.k = "num"
             /\ count * 100 >= cond.threshold.n * Len(list)
        ELSE IF operator = "empty"
        THEN val.k = "none" \/ Len(val.v) = 0
        ELSE IF operator = "avg_duration_months_lt"
        THEN /\ Len(list) > 0
             /\ dicts
             /\ valid_items # {}
             /\ cond.value.k = "num"
             /\ total_dur < cond.value.n * 100 * Cardinality(valid_items)
        ELSE FALSE

\* _evaluate_rules(resume_data, rules): the ids of the announced rules
RECURSIVE evaluate_rules(_, _)
evaluate_rules(resume_json, rule_list) ==
    IF Len(rule_list) = 0 THEN << >>
    ELSE (IF is_triggered(Head(rule_list), resume_json) THEN << Head(rule_list).id >> ELSE << >>)
           \o evaluate_rules(resume_json, Tail(rule_list))

\* Resumes beside those of the oracle machine: a null summary, an intern
\* named in a description only, an entry without dates.
ResumeNullSummary ==
    [skills |-> << T_python >>,
     experience |-> << Job(T_senior_dev, Date(2010, 1), Date(2020, 1)) >>,
     projects |-> << >>, certifications |-> << >>, summary |-> NullSummary]
ResumeDescribedIntern ==
    [skills |-> << T_python >>,
     experience |-> << JobDescribed(T_senior_dev, Date(2010, 1), Date(2020, 1),
                                    T_mentored_an_intern) >>,
     projects |-> << T_python >>, certifications |-> << >>,
     summary |-> Summary(T_filled_summary)]
ResumeUndated ==
    [skills |-> << >>,
     experience |-> << Job(T_senior_dev, Date(2019, 1), Date(2020, 7)),
                       Job(T_senior_dev, NoDate, NoDate) >>,
     projects |-> << >>, certifications |-> << >>,
     summary |-> Summary(T_filled_summary)]
EvaluatorResumes ==
    ResumeChoices \cup { ResumeNullSummary, ResumeDescribedIntern, ResumeUndated }

RuleNoProjects ==
    Rule("rule_no_projects",
         Condition("resume.projects", "empty", Str(<< >>), Num(0, 1), Num(0, 1)),
         Action("projects_score", "cap", Num(20, 1)))
RuleSkillKeyword ==
    Rule("rule_skill_keyword",
         Condition("resume.skills", "contains_keyword_ratio",
                   Str(T_python), Num(50, 1), Num(0, 1)),
         Action("skills_score", "cap", Num(80, 1)))
EvaluatorRules ==
    { RuleSkillsFloor, RuleIntern, RuleMissingSummary, RuleShortTenure,
      RuleNoValue, RuleNoKeyword, RuleNoProjects, RuleSkillKeyword }

NotAnnounced == [asked |-> FALSE, ids |-> << >>]

EvaluatorInit ==
    /\ rule_given \in EvaluatorRules
    /\ resume_data \in EvaluatorResumes
    /\ announced = NotAnnounced
    /\ triggered = "unasked"

\* ai_score_resume builds the prompt constraints
EvaluateRules ==
    /\ ~announced.asked
    /\ announced' = [asked |-> TRUE, ids |-> evaluate_rules(resume_data, << rule_given >>)]
    /\ UNCHANGED << rule_given, resume_data, triggered >>
    /\ UNCHANGED notEvaluator

\* GenericEvidenceRule.apply asks whether the rule's condition holds
EvaluateCondition ==
    /\ triggered = "unasked"
    /\ triggered' = evaluate_condition(rule_given.condition, resume_data)
    /\ UNCHANGED << rule_given, resume_data, announced >>
    /\ UNCHANGED notEvaluator

EvaluatorNext == EvaluateRules \/ EvaluateCondition
EvaluatorStart ==
    OracleIdle /\ MatcherIdle /\ ExperienceIdle /\ LocalIdle /\ TimelineIdle /\ SemanticIdle
    /\ WeightIdle /\ RegistryIdle /\ EvaluatorInit /\ JobIdle /\ BucketIdle
SpecEvaluators == EvaluatorStart /\ [][EvaluatorNext]_vars

\* what a dotted field path leads to in the resume JSON is null, "" or an
\* empty collection
ResolvesEmpty(resume_json, path) ==
    get_nested_val(resume_json, path).k = "none"
       \/ Len(get_nested_val(resume_json, path).v) = 0

\* C21: the guardrail evaluator finds an `empty` condition triggered exactly
\* when the value at the rule's field path is null, "" or an empty
\* collection.
C21_EmptyOperator ==
    (triggered # "unasked" /\ rule_given.condition.operator = "empty")
       => (triggered = "true" <=> ResolvesEmpty(resume_data, rule_given.condition.field))

\* C29: the rule the oracle is told about is the rule the guardrail
\* enforces: for one rule and one resume, _evaluate_rules announces the rule
\* exactly when _evaluate_condition finds its condition triggered.
C29_EvaluatorsAgree ==
    (announced.asked /\ triggered # "unasked")
       => (announced.ids = << rule_given.id >> <=> triggered = "true")

\* ---------------------------------------------------------------------
\* Relevant experience: the average over the JD skills and its bucket
\* (score_resume_against_jd step 9, _map_relevant_experience_to_bucket)
\* ---------------------------------------------------------------------

MaxCriteria == 3

S_at_least_4 == << ">", "=", " ", "4" >>
S_1_to_3 == << "1", "-", "3" >>
S_below_3 == << "<", "3" >>
S_5_plus == << "5", "+" >>

\* the entries a relevant_experience criteria dict is built from, each with
\* a score of its own
BucketEntries ==
    { Criterion(S_at_least_2, Num(80, 1)), Criterion(S_at_least_4, Num(100, 1)),
      Criterion(S_1_to_3, Num(50, 1)), Criterion(S_below_3, Num(20, 1)),
      Criterion(S_5_plus, Num(70, 1)) }

\* criteria dicts: up to MaxCriteria distinct keys in any order
BucketCriteria ==
    { c \in UNION { [1..n -> BucketEntries] : n \in 0..MaxCriteria } :
        \A i, j \in 1..Len(c) : i # j => c[i] # c[j] }

\* relevant_experience_map values, in hundredths of a year
RelevantMaps ==
    { << >>,
      (Lower(S_Python) :> 500) @@ (Lower(S_Docker) :> 100),
      (Lower(S_Python) :> 250),
      (S_Python :> 150) @@ (Lower(S_Python) :> 900) }

BucketSkills ==
    { << >>, << S_Python >>, << S_Python, S_Docker >>, << S_Python, << >> >> }

BucketInit ==
    /\ rel_criteria \in BucketCriteria
    /\ rel_rmap \in RelevantMaps
    /\ rel_jd_skills \in BucketSkills
    /\ candidate_rel_years = -1
    /\ relevant_experience_score = -1

\* candidate_rel_years = round(sum / len(jd_skills), 2)
AverageRelevantYears ==
    /\ candidate_rel_years = -1
    /\ candidate_rel_years' = CandidateRelYears(rel_rmap, rel_jd_skills)
    /\ UNCHANGED << rel_criteria, rel_rmap, rel_jd_skills, relevant_experience_score >>
    /\ UNCHANGED notBucket

\* relevant_experience_score = _map_relevant_experience_to_bucket(...)
MapToBucket ==
    /\ candidate_rel_years # -1
    /\ relevant_experience_score = -1
    /\ relevant_experience_score' =
           map_relevant_experience_to_bucket(candidate_rel_years, rel_criteria)
    /\ UNCHANGED << rel_criteria, rel_rmap, rel_jd_skills, candidate_rel_years >>
    /\ UNCHANGED notBucket

BucketNext == AverageRelevantYears \/ MapToBucket
BucketStart ==
    OracleIdle /\ MatcherIdle /\ ExperienceIdle /\ LocalIdle /\ TimelineIdle /\ SemanticIdle
    /\ WeightIdle /\ RegistryIdle /\ EvaluatorIdle /\ JobIdle /\ BucketInit
SpecBucket == BucketStart /\ [][BucketNext]_vars

\* the form of a bucket label and whether a value (hundredths) falls in it
BucketForm(key) ==
    LET k == RemoveBlanks(key)
    IN  IF MatchAtLeast(k).found THEN "at_least"
        ELSE IF MatchBetween(k).found THEN "between"
        ELSE IF MatchBelow(k).found THEN "below"
        ELSE "none"
InBucket(key, years) ==
    LET k == RemoveBlanks(key)
    IN  CASE BucketForm(key) = "at_least" -> years >= 100 * MatchAtLeast(k).a
          [] BucketForm(key) = "between" ->
                 100 * MatchBetween(k).a <= years /\ years <= 100 * MatchBetween(k).b
          [] BucketForm(key) = "below" -> years < 100 * MatchBelow(k).a
          [] OTHER -> FALSE

\* the rules of one form, in the order of the keys
RulesOfForm(criteria, form) ==
    SelectSeq(criteria, LAMBDA e : BucketForm(e.key) = form)

\* the first rule of the form that the value falls in, as a sequence of
\* at most one score
FirstOfForm(criteria, form, years) ==
    LET hit == SelectSeq(RulesOfForm(criteria, form), LAMBDA e : InBucket(e.key, years))
    IN  IF Len(hit) = 0 THEN << >> ELSE << hit[1].val.n >>

\* the same rules, listed in another key order that keeps the order of the
\* rules of each form
SameRulesPerForm(c, d) ==
    /\ Len(c) = Len(d)
    /\ \A form \in { "at_least", "between", "below", "none" } :
          RulesOfForm(c, form) = RulesOfForm(d, form)

\* the years of the candidate for a JD skill
YearsFor(skill) ==
    IF skill \in DOMAIN rel_rmap /\ rel_rmap[skill] # 0 THEN rel_rmap[skill]
    ELSE IF Lower(skill) \in DOMAIN rel_rmap THEN rel_rmap[Lower(skill)]
    ELSE 0

Distance(x, y) == IF x < y THEN y - x ELSE x - y

\* C22: the score is that of the first matching >=N rule, else of the first
\* matching A-B rule, else of the first matching <N rule, else 0, whatever
\* the order in which rules of different forms are listed; the value looked
\* up is the average over the JD skills of the candidate's relevant years.
C22_BucketPrecedence ==
    /\ candidate_rel_years # -1 =>
          /\ Len(rel_jd_skills) = 0 => candidate_rel_years = 0
          /\ Len(rel_jd_skills) > 0 =>
                2 * Distance(candidate_rel_years * Len(rel_jd_skills),
                             SumOver([i \in 1..Len(rel_jd_skills) |->
                                         YearsFor(rel_jd_skills[i])],
                                     1..Len(rel_jd_skills)))
                   <= Len(rel_jd_skills)
    /\ relevant_experience_score # -1 =>
          /\ << relevant_experience_score >> =
                SubSeq(FirstOfForm(rel_criteria, "at_least", candidate_rel_years)
                         \o FirstOfForm(rel_criteria, "between", candidate_rel_years)
                         \o FirstOfForm(rel_criteria, "below", candidate_rel_years)
                         \o << 0 >>, 1, 1)
          /\ \A other \in BucketCriteria :
                SameRulesPerForm(other, rel_criteria) =>
                   map_relevant_experience_to_bucket(candidate_rel_years, other)
                      = relevant_experience_score

\* a range rule listed before a >=N rule, both matching an average of 3.0
\* years over two skills: the >=N rule decides
C22_Witness ==
    /\ rel_criteria = << Criterion(S_1_to_3, Num(50, 1)), Criterion(S_below_3, Num(20, 1)),
                         Criterion(S_at_least_2, Num(80, 1)) >>
    /\ rel_jd_skills = << S_Python, S_Docker >>
    /\ candidate_rel_years = 300
    /\ relevant_experience_score = 80

\* ---------------------------------------------------------------------
\* The five hybrid categories of score_resume_against_jd
\* ---------------------------------------------------------------------

\* the JD items of a hybrid category and the texts its phrase match reads
HybridTargets(key) ==
    CASE key = "skills_score" -> local_jd.skills
      [] key = "technologies_score" -> local_jd.technologies
      [] key = "tools_score" -> local_jd.tools
      [] key = "certificates_score" -> local_jd.certificates
      [] key = "responsibilities_score" -> local_jd.responsibilities
HybridSources(key) ==
    IF key = "certificates_score" THEN local_resume.certificates ELSE text_corpus

\* the step of the category has been taken
HybridReached(key) ==
    scores[key] # -1 \/ (key = "certificates_score" /\ lpc = "raised")

\* C23: each hybrid category scores round(100 * matched / count), where
\* matched counts the JD items the phrase match found plus those of the
\* remaining items the semantic match found, at most count in all; 0 when
\* the JD lists nothing for the category.
C23_HybridRatio ==
    \A key \in { "skills_score", "technologies_score", "tools_score",
                 "certificates_score", "responsibilities_score" } :
       HybridReached(key) =>
          LET jd_targets == HybridTargets(key)
              found_ss == extract_matches(HybridSources(key), jd_targets)
          IN  \E found_sem \in SemanticFound(text_corpus, found_ss.missing, semantic_model) :
                 /\ Len(found_ss.matched) + Len(found_sem) <= Len(jd_targets)
                 /\ scores[key] = IF Len(jd_targets) = 0 THEN 0
                                  ELSE PyRound(100 * (Len(found_ss.matched) + Len(found_sem)),
                                               Len(jd_targets))

\* ---------------------------------------------------------------------
\* The coercion of the oracle's object (validate_ai_score_output on what
\* json.loads returned)
\* ---------------------------------------------------------------------

\* JSON values beside those of RawSkills: null, and a number too large for
\* a float (json.loads reads 1e999 as inf)
RawNull == [k |-> "null", v |-> 0]
RawInf == [k |-> "inf", v |-> 0]

\* raw_obj.get("notes", ""): no such key, null, a number, or a string
NotesAbsent == [k |-> "absent", len |-> 0]
NotesNull == [k |-> "null", len |-> 0]
NotesNumber == [k |-> "num", len |-> 1]
NotesText(len) == [k |-> "str", len |-> len]

\* len(str(val)): "" for the default, "None" for null, the digits of a
\* number, the string itself
StrLen(val) ==
    CASE val.k = "absent" -> 0
      [] val.k = "null" -> 4
      [] OTHER -> val.len

RawObjectNoted(base, skills, raw_notes) ==
    [isdict |-> TRUE,
     fields |-> [key \in EXPECTED_KEYS |-> IF key = "skills_score" THEN skills ELSE base],
     notes_len |-> StrLen(raw_notes),
     raw_notes |-> raw_notes]

CoerceInit ==
    /\ pc = "start"
    /\ raw_obj \in { RawObjectNoted(b, s, n) :
                        b \in { Absent, RawNull, RawNum(405) },
                        s \in RawSkills \cup { RawInf },
                        n \in { NotesAbsent, NotesNull, NotesNumber, NotesText(300) } }
                     \cup { NotAnObject }
    /\ weights = ScoringWeights(NoWeightsGiven)
    /\ has_context \in BOOLEAN
    /\ resume \in ResumeChoices
    /\ rules \in (IF has_context
                  THEN { NoRules, [iterable |-> TRUE, items |-> << RuleIntern >>] }
                  ELSE { NoRules })
    /\ out = << >>
    /\ notes = EmptyNotes
    /\ all_notes = << >>
    /\ idx = 0

CoerceStart ==
    CoerceInit /\ MatcherIdle /\ ExperienceIdle /\ LocalIdle /\ TimelineIdle /\ SemanticIdle
    /\ WeightIdle /\ RegistryIdle /\ EvaluatorIdle /\ JobIdle /\ BucketIdle
SpecCoerce == CoerceStart /\ [][Next]_vars

\* what the coercion is to make of a raw score field
CoercedScore(v) ==
    IF v.k = "inf" THEN 100
    ELSE IF v.k # "num" THEN 0
    ELSE IF v.v < 0 THEN 0
    ELSE IF v.v > 1000 THEN 100
    ELSE PyRound(v.v, 10)

\* the coercion loop has run and no guardrail has touched its result
JustCoerced == pc = (IF has_context THEN "skills" ELSE "final")

\* C24: a JSON object is never rejected and validation of it never raises;
\* right after the coercion every category holds its field clamped to
\* 0..100, or 0 for a missing, null or non-numeric field, and notes that
\* are missing or not a string are the empty string; an output that is not
\* a JSON object is rejected.
C24_OracleCoercion ==
    /\ raw_obj.isdict => pc \notin { "rejected", "raised" }
    /\ ~raw_obj.isdict => pc \in { "start", "rejected" }
    /\ (raw_obj.isdict /\ JustCoerced) =>
          /\ DOMAIN out = EXPECTED_KEYS
          /\ \A c \in Categories :
                IsInt(out[c]) /\ out[c].v = CoercedScore(raw_obj.fields[c])
          /\ notes.len <= ORACLE_NOTES_CAP
          /\ raw_obj.raw_notes.k # "str" => notes.len = 0

\* C25: the notes never hold more than 500 characters, and never more than
\* 240 as long as no guardrail note has been appended to them.
C25_NotesBounded ==
    pc \notin { "start", "rejected" } =>
       /\ notes.len <= NOTES_CAP
       /\ Len(all_notes) = 0 => notes.len <= ORACLE_NOTES_CAP

\* the oracle's 300 characters of notes were cut to 240, the built-in rules
\* added their notes, and the joined text was cut at 500
C25_Witness ==
    /\ pc = "done"
    /\ raw_obj.notes_len = 300
    /\ Len(all_notes) >= 4
    /\ notes.len = NOTES_CAP

\* ---------------------------------------------------------------------
\* The frame of a guardrail rule (what one rule.apply may change)
\* ---------------------------------------------------------------------

\* a rule whose action names a key the score map does not hold
RuleBonus ==
    Rule("rule_bonus",
         Condition("resume.skills", "empty", Str(<< >>), Num(0, 1), Num(0, 1)),
         Action("bonus_score", "set", Num(10, 1)))
FrameRules == { RuleSkillsFloor, RuleIntern, RuleShortTenure, RuleBonus }

\* validate_ai_score_output with a guardrail context and an oracle object
\* that scores every category 40 and skills 100
FrameInit ==
    /\ pc = "start"
    /\ raw_obj = RawObject(RawNum(405), Absent, RawNum(1000), 0)
    /\ weights = ScoringWeights(NoWeightsGiven)
    /\ has_context = TRUE
    /\ resume \in ResumeChoices
    /\ rules \in { [iterable |-> TRUE, items |-> q] : q \in SeqsUpTo(FrameRules, MaxRules) }
                   \cup { [iterable |-> FALSE, items |-> << >>] }
    /\ out = << >>
    /\ notes = EmptyNotes
    /\ all_notes = << >>
    /\ idx = 0

FrameStart ==
    FrameInit /\ MatcherIdle /\ ExperienceIdle /\ LocalIdle /\ TimelineIdle /\ SemanticIdle
    /\ WeightIdle /\ RegistryIdle /\ EvaluatorIdle /\ JobIdle /\ BucketIdle
SpecFrame == FrameStart /\ [][Next]_vars

\* the keys that one map has and the other lacks or holds another value for
ChangedKeys(before, after) ==
    { k \in DOMAIN before \cup DOMAIN after :
         k \notin DOMAIN before \/ k \notin DOMAIN after \/ before[k] # after[k] }

\* the keys the rule applied at this position may change
OwnKeys ==
    CASE pc = "skills" -> { "skills_score" }
      [] pc = "experience" ->
            { "experience_score", "relevant_experience_score", "responsibilities_score" }
      [] pc = "projects" -> { "projects_score" }
      [] pc = "certifications" -> { "certificates_score" }
      [] pc = "generic" ->
            IF rules.iterable /\ idx <= Len(rules.items) /\ rules.items[idx].isdict
            THEN { rules.items[idx].action.target } ELSE { }
      [] OTHER -> { }

\* the generic rule applied at this position does not trigger
NotTriggered ==
    /\ pc = "generic"
    /\ rules.iterable /\ idx <= Len(rules.items) /\ rules.items[idx].isdict
    /\ evaluate_condition(rules.items[idx].condition, resume) # "true"

GuardrailFrame ==
    pc \in GuardrailPositions =>
        /\ ChangedKeys(out, out') \subseteq OwnKeys
        /\ DOMAIN out' = DOMAIN out
        /\ NotTriggered => out' = out
\* C26: a rule of the chain changes no score but its own (a generic rule
\* the one its action names), adds no key to the score map and removes
\* none, and changes nothing when it does not trigger.
C26_GuardrailFrame == [][GuardrailFrame]_vars

\* the three numbers of a semantic version
SemverParts(v) ==
    LET a == RunEnd(v, 1, Digits)
        b == RunEnd(v, a + 1, Digits)
        c == RunEnd(v, b + 1, Digits)
    IN  << ToInt(v, 1, a), ToInt(v, a + 1, b), ToInt(v, b + 1, c) >>

\* version v is newer than version w
Newer(v, w) ==
    LET p == SemverParts(v)
        q == SemverParts(w)
    IN  \/ p[1] > q[1]
        \/ p[1] = q[1] /\ p[2] > q[2]
        \/ p[1] = q[1] /\ p[2] = q[2] /\ p[3] > q[3]

\* one deprecate_prompt
DeprecateByNewer ==
    Called("deprecate_prompt") =>
       LET id == response'.call[2]
           version == response'.call[3]
           replaced_by == response'.call[4]
           result == response'.value
       IN  /\ ErrorType(result) = "None" =>
                /\ get_record(records, id, version) # 0
                /\ get_record(records, id, replaced_by) # 0
                /\ Newer(replaced_by, version)
           /\ ErrorType(result) # "None" =>
                /\ ErrorType(result) \in { "NOT_FOUND", "VALIDATION_ERROR" }
                /\ records' = records
\* C27: deprecate_prompt succeeds only for a registered version and a
\* registered replacement of the same prompt that is newer than it; any
\* other call returns NOT_FOUND or VALIDATION_ERROR and leaves the records
\* as they were.
C27_DeprecateByNewer == [][DeprecateByNewer]_vars

\* ---------------------------------------------------------------------
\* The candidate profile on its way to the built-in rules
\* (ai_score_resume: ResumeFacts(**parsed_resume), GuardrailContext)
\* ---------------------------------------------------------------------

\* Candidate profiles as the pipeline hands them over: the list fields
\* normalize_for_scoring guarantees, each empty or filled.
Profiles ==
    { [skills |-> sk, experience |-> ex, projects |-> rest, certificates |-> rest,
       education |-> << >>, summary |-> Summary(T_filled_summary)] :
         sk \in { << >>, << T_python >> },
         ex \in { << >>, << Job(T_senior_dev, Date(2010, 1), Date(2020, 1)) >> },
         rest \in { << >>, << T_python >> } }

\* ResumeFacts(**profile): a declared field the profile lacks takes its
\* default, the empty list; a key that is not a declared field is kept as
\* an extra attribute.
ResumeFactsFields == { "skills", "experience", "education", "projects", "certifications" }
ResumeFacts(profile) ==
    [f \in DOMAIN profile \cup ResumeFactsFields |->
        IF f \in DOMAIN profile THEN profile[f] ELSE << >>]

\* validate_ai_score_output as ai_score_resume calls it: the context holds
\* the ResumeFacts of the profile, the oracle scores every category above 0
ProfileInit ==
    /\ pc = "start"
    /\ raw_obj = RawObject(RawNum(405), Absent, RawNum(1000), 0)
    /\ weights = ScoringWeights(NoWeightsGiven)
    /\ has_context = TRUE
    /\ resume \in { ResumeFacts(p) : p \in Profiles }
    /\ rules \in { NoRules, [iterable |-> TRUE, items |-> << RuleIntern >>],
                   [iterable |-> TRUE, items |-> << RuleSkillsFloor >>],
                   [iterable |-> FALSE, items |-> << >>] }
    /\ out = << >>
    /\ notes = EmptyNotes
    /\ all_notes = << >>
    /\ idx = 0

ProfileStart ==
    ProfileInit /\ MatcherIdle /\ ExperienceIdle /\ LocalIdle /\ TimelineIdle /\ SemanticIdle
    /\ WeightIdle /\ RegistryIdle /\ EvaluatorIdle /\ JobIdle /\ BucketIdle
SpecProfile == ProfileStart /\ [][Next]_vars

\* the four built-in rules have run and no generic rule has
AfterBuiltins == pc = "generic" /\ idx = 1

\* the category holds what the coercion made of the oracle's proposal
KeepsProposal(c) == out[c] = Coerce(raw_obj)[c]

\* C28: past the built-in rules, a profile with certificates keeps the
\* proposed certificates_score, one with skills the skills_score, one with
\* experience entries the three experience categories, and one with
\* projects the projects_score.
C28_EvidenceKeepsScore ==
    AfterBuiltins =>
       /\ Len(resume.certificates) > 0 => KeepsProposal("certificates_score")
       /\ Len(resume.skills) > 0 => KeepsProposal("skills_score")
       /\ Len(resume.experience) > 0 =>
             \A c \in { "experience_score", "relevant_experience_score",
                        "responsibilities_score" } : KeepsProposal(c)
       /\ Len(resume.projects) > 0 => KeepsProposal("projects_score")


\* ---------------------------------------------------------------------------
\* Background processing of the resumes of one batch
\* (src/server.py process_single_resume, src/main.py run_full_pipeline,
\*  src/app/saas_db.py update_job_status / check_and_update_batch_status).
\*
\* process_resumes creates one database job per resume with status 'queued',
\* a batch with status 'processing', and adds one background task per resume;
\* the tasks of one request run one after the other.  Every database write
\* commits on its own, so each write is a step other readers can observe.
\* JOBS is the in-memory status shown on the dashboard, db_jobs the status
\* column of the jobs table, db_batch the status of the batch row, and
\* worker[j] the position of the task of job j together with `checked`:
\* whether check_and_update_batch_status has run since the last write to the
\* status of job j.
\* ---------------------------------------------------------------------------
MaxJobs == 3

JobIds == 1 .. MaxJobs

TerminalStatus == { "completed", "failed" }

\* saas_db.update_job_status: UPDATE jobs SET status = %s WHERE job_id = %s
update_job_status(table, job_id, status) == [table EXCEPT ![job_id] = status]

\* saas_db.check_and_update_batch_status: when every job of the batch is
\* 'completed' or 'failed' the batch becomes 'failed' if any job failed and
\* 'completed' otherwise; while a job is still open the batch is left alone.
check_and_update_batch_status(table, batch) ==
    LET total        == Cardinality(DOMAIN table)
        done_count   == Cardinality({ j \in DOMAIN table : table[j] \in TerminalStatus })
        failed_count == Cardinality({ j \in DOMAIN table : table[j] = "failed" })
    IN  IF total > 0 /\ done_count = total
          THEN (IF failed_count > 0 THEN "failed" ELSE "completed")
          ELSE batch

\* process_resumes: the state in which the background tasks start.
JobInit ==
    /\ JOBS = [j \in JobIds |-> "Queued"]
    /\ db_jobs = [j \in JobIds |-> "queued"]
    /\ db_batch = "processing"
    /\ worker = [j \in JobIds |-> [pc |-> "queued", checked |-> FALSE]]

\* Background tasks run in the order they were added: task j runs once every
\* earlier task has returned.
Scheduled(j) == \A i \in JobIds : i < j => worker[i].pc = "ended"

\* process_single_resume, lines 234-238: status "In Progress" in memory and
\* 'running' in the database.
BeginJob(j) ==
    /\ Scheduled(j) /\ worker[j].pc = "queued"
    /\ JOBS' = [JOBS EXCEPT ![j] = "In Progress"]
    /\ db_jobs' = update_job_status(db_jobs, j, "running")
    /\ worker' = [worker EXCEPT ![j] = [pc |-> "lookup", checked |-> FALSE]]
    /\ UNCHANGED db_batch
    /\ UNCHANGED notJob

\* lines 244-270: the explanation file of an earlier run exists and loads:
\* the job is completed from history and the batch is checked.
LoadFromHistory(j) ==
    /\ worker[j].pc = "lookup"
    /\ JOBS' = [JOBS EXCEPT ![j] = "Completed"]
    /\ db_jobs' = update_job_status(db_jobs, j, "completed")
    /\ db_batch' = check_and_update_batch_status(db_jobs', db_batch)
    /\ worker' = [worker EXCEPT ![j] = [pc |-> "ended", checked |-> TRUE]]
    /\ UNCHANGED notJob

\* lines 244, 271-272: no explanation file, or reading it raised (before the
\* in-memory status was set, or after: a JSON document that is not an
\* object): the resume is processed again.
Reprocess(j) ==
    /\ worker[j].pc = "lookup"
    /\ \E status \in { "In Progress", "Completed" } :
          JOBS' = [JOBS EXCEPT ![j] = status]
    /\ worker' = [worker EXCEPT ![j].pc = "pipeline"]
    /\ UNCHANGED << db_jobs, db_batch >>
    /\ UNCHANGED notJob

\* run_full_pipeline raises (missing resume, a failing stage): the exception
\* reaches the handler of process_single_resume.
PipelineRaises(j) ==
    /\ worker[j].pc = "pipeline"
    /\ worker' = [worker EXCEPT ![j].pc = "handler"]
    /\ UNCHANGED << JOBS, db_jobs, db_batch >>
    /\ UNCHANGED notJob

\* run_full_pipeline, lines 160-175: the result is saved and the job marked
\* 'completed'.
PipelinePersists(j) ==
    /\ worker[j].pc = "pipeline"
    /\ db_jobs' = update_job_status(db_jobs, j, "completed")
    /\ worker' = [worker EXCEPT ![j] = [pc |-> "finish", checked |-> FALSE]]
    /\ UNCHANGED << JOBS, db_batch >>
    /\ UNCHANGED notJob

\* run_full_pipeline, lines 160-177: save_resume_result (or the status update
\* after it) raises; the exception is printed and the function returns its
\* result as after a successful run, the status column untouched.
PipelinePersistFails(j) ==
    /\ worker[j].pc = "pipeline"
    /\ worker' = [worker EXCEPT ![j].pc = "finish"]
    /\ UNCHANGED << JOBS, db_jobs, db_batch >>
    /\ UNCHANGED notJob

\* process_single_resume, lines 280-295: after the pipeline returned the job
\* is "Completed" in memory and the batch is checked; the database status of
\* the job is not written here.
FinishJob(j) ==
    /\ worker[j].pc = "finish"
    /\ JOBS' = [JOBS EXCEPT ![j] = "Completed"]
    /\ db_batch' = check_and_update_batch_status(db_jobs, db_batch)
    /\ worker' = [worker EXCEPT ![j] = [pc |-> "ended", checked |-> TRUE]]
    /\ UNCHANGED db_jobs
    /\ UNCHANGED notJob

\* lines 297-308: the handler marks the job failed and checks the batch.
HandleFailure(j) ==
    /\ worker[j].pc = "handler"
    /\ JOBS' = [JOBS EXCEPT ![j] = "Failed"]
    /\ db_jobs' = update_job_status(db_jobs, j, "failed")
    /\ db_batch' = check_and_update_batch_status(db_jobs', db_batch)
    /\ worker' = [worker EXCEPT ![j] = [pc |-> "ended", checked |-> TRUE]]
    /\ UNCHANGED notJob

JobNext ==
    \E j \in JobIds :
       \/ BeginJob(j)
       \/ LoadFromHistory(j)
       \/ Reprocess(j)
       \/ PipelineRaises(j)
       \/ PipelinePersists(j)
       \/ PipelinePersistFails(j)
       \/ FinishJob(j)
       \/ HandleFailure(j)

JobStart ==
    /\ JobInit
    /\ OracleIdle /\ MatcherIdle /\ ExperienceIdle /\ LocalIdle /\ TimelineIdle
    /\ SemanticIdle /\ WeightIdle /\ RegistryIdle /\ EvaluatorIdle /\ BucketIdle

SpecJobs == JobStart /\ [][JobNext]_vars

\* A background task that can take a step takes it: every call the task makes
\* returns or raises.
SpecJobsFair == SpecJobs /\ WF_vars(JobNext)

\* C30: every job that process_single_resume moves to database status
\* 'running' eventually reaches 'completed' or 'failed'; a job that has one of
\* them keeps it; and once the processing of a job has ended the batch check
\* has run after the job's last status change.
C30_RunningJobsEnd ==
    /\ \A j \in JobIds :
          (db_jobs[j] = "running") ~> (db_jobs[j] \in TerminalStatus)
    /\ [][\A j \in JobIds :
             db_jobs[j] \in TerminalStatus => db_jobs'[j] = db_jobs[j]]_vars
    /\ [](\A j \in JobIds : worker[j].pc = "ended" => worker[j].checked)

\* The parts of C30 that do not depend on the result being persisted.
C30_StatusKept ==
    /\ [][\A j \in JobIds :
             db_jobs[j] \in TerminalStatus => db_jobs'[j] = db_jobs[j]]_vars
    /\ [](\A j \in JobIds : worker[j].pc = "ended" => worker[j].checked)

====
